---------------------------- MODULE Spec2Model ----------------------------
(***************************************************************************)
(* Process orchestration of camera/control.py (CameraController): the      *)
(* module-level handles _stream_process, _http_server_process and the      *)
(* dictionary _recording_processes, the operating-system processes the     *)
(* controller spawns (ssh capture, ffmpeg transcode, python http.server),  *)
(* and the callers' positions inside start_stream, stop_stream,            *)
(* start_recording and stop_recording.                                     *)
(*                                                                         *)
(* A caller is a thread of the Python process.  Each action is the code    *)
(* between two points at which the caller blocks (Popen, time.sleep,       *)
(* Popen.wait); while it is blocked the environment may move: a process    *)
(* exits, the wall clock advances, another caller runs.                    *)
(*                                                                         *)
(* A process is known by its handle, its index in proc.  The run may spawn  *)
(* `capacity` processes; Popen may also raise at any time.                 *)
(*                                                                         *)
(* Time is int(time.time()) in whole seconds.  Sleeps and waits do not     *)
(* force the clock forward: Tick may happen any number of times while a    *)
(* caller is blocked, which includes the real durations.                   *)
(***************************************************************************)
EXTENDS Integers, Sequences, FiniteSets, TLC

\* ------------------------------------------------------------------ bounds
MaxProcs == 4          \* processes one caller's run may spawn
MaxConcProcs == 5      \* processes a run of two callers may spawn
MaxConcRecProcs == 2   \* processes a run of two recording callers may spawn
MaxCaptureProcs == 3   \* processes a run of the capturing caller may spawn
MaxTime == 2           \* seconds the wall clock runs through: 1 .. MaxTime
MaxDuration == 3       \* planned durations of the recording whose status is read
MaxCount == 2          \* samples one capture_frames_from_stream call is asked for
MaxClock == 5          \* seconds the clock runs through while its status is read
MaxKeys == 3           \* keys of one dictionary given to set_camera_settings

Threads == {"t1", "t2"}
FirstThread == "t1"

None == 0
\* control.py:300  duration: int = 30
DefaultDuration == 30
\* server.py:70  duration: int = Field(ge=1, le=3600): the shortest, and the default
Durations == {1, DefaultDuration}
\* control.py:300: duration: int, as a caller of the controller gives it
\* without the facade's ge=1
DirectDurations == {0, 1}
\* a recording id is rec_<second>; rec_0 is an id no start_recording returns
RecIds == 0 .. MaxTime
\* output_path as the facade gives it: omitted (server.py:209-215)
OutputPaths == {"None"}

VARIABLES
    proc,                  \* the processes spawned so far, by handle 1..Len(proc)
    _stream_process,       \* control.py:27
    _http_server_process,  \* control.py:28
    _recording_processes,  \* control.py:29
    now,                   \* int(time.time())
    th,                    \* each caller: position, operation, locals, result
    capacity,              \* how many processes the run may spawn
    DEFAULT,               \* control.py:19-22: the module globals DEFAULT_<KEY>, by key
    files                  \* the paths at which a file exists

vars == <<proc, _stream_process, _http_server_process, _recording_processes, now, th,
          capacity, DEFAULT, files>>

\* ------------------------------------------------------------ settings
\* control.py:19-22
DEFAULT_WIDTH == 640
DEFAULT_HEIGHT == 480
DEFAULT_FRAMERATE == 15
DEFAULT_BITRATE == 2000000

\* control.py:495
valid_settings == {"width", "height", "framerate", "bitrate"}

\* the module globals once control.py is imported
module_globals ==
    [width |-> DEFAULT_WIDTH, height |-> DEFAULT_HEIGHT,
     framerate |-> DEFAULT_FRAMERATE, bitrate |-> DEFAULT_BITRATE]

\* control.py:90-91, 300-302: `width: int = DEFAULT_WIDTH, ...` is evaluated
\* once, when the def statement runs at import; the function keeps the values
parameter_defaults == module_globals

\* the parameters of a call that gives the keyword arguments `given`
parameters(given) ==
    [k \in valid_settings |-> IF k \in DOMAIN given THEN given[k] ELSE parameter_defaults[k]]

\* control.py:107-112, 316-321: the values the libcamera-vid command line of
\* the remote capture is formatted with
ssh_cmd(params) == [k \in valid_settings |-> params[k]]

\* no CompletedProcess: subprocess.run has not returned
NoResult == -1

\* no command built
NoCmd == [k \in {} |-> 0]

\* a call with no keyword argument
NoArgs == [k \in {} |-> 0]

\* ---------------------------------------------------------- processes
Pids == 1 .. Len(proc)

\* subprocess.Popen(..., stdout=subprocess.PIPE): a handle on a new running
\* child, its input bound to the output of src if any; the caller holds the
\* read end of the child's output
Popen(kind, owner, src) ==
    Append(proc, [kind |-> kind, owner |-> owner, src |-> src,
                  st |-> "running", out |-> "held"])

\* the caller keeps its read end of p's output
close_stdout_skipped(pr, p) == pr

\* control.py:148, 343  ssh_process.stdout.close()
close_stdout(pr, p) == [pr EXCEPT ![p].out = "closed"]

CanSpawn == Len(proc) < capacity

\* a process is "running", "signalled" (SIGTERM delivered, not yet exited) or
\* "exited"
\* Popen.poll() is None
poll_is_None(p) == proc[p].st # "exited"

\* handle is set and its process has not exited: `h and h.poll() is None`
Alive(p) == p # None /\ poll_is_None(p)

\* SIGTERM to every running process of the same program (a `pkill ffmpeg`)
terminate_by_name(pr, p) ==
    [q \in DOMAIN pr |->
        IF pr[q].kind = pr[p].kind /\ pr[q].st = "running"
        THEN [pr[q] EXCEPT !.st = "signalled"]
        ELSE pr[q]]

\* Popen.terminate(): SIGTERM is sent; the process decides when it exits
terminate(pr, p) ==
    [pr EXCEPT ![p].st = IF @ = "running" THEN "signalled" ELSE @]

\* a second SIGTERM where control.py:80, 181 send SIGKILL
kill_as_terminate(pr, p) == terminate(pr, p)

\* Popen.kill(): SIGKILL cannot be caught or ignored; the process is taken as
\* gone when kill() returns
kill(pr, p) == [pr EXCEPT ![p].st = "exited"]

\* ---------------------------------------------------------- callers
\* {}: the dictionary with no key
NoRecordings == [k \in {} |-> None]

\* iter(d) of a dictionary with `used` keys, before the first next()
NoIter == [used |-> 0, last |-> 0]

\* a request body with every field left to its default
NoBody == [name |-> "-", value |-> 0]

\* no HTTP request: the caller uses the controller directly
NoRequest == [endpoint |-> "-", key |-> "-", body |-> NoBody]

Idle == [pc |-> "idle", op |-> "none", arg |-> None, ret |-> "-", log |-> << >>,
         ssh |-> None, ff |-> None, rid |-> 0, path |-> <<"-", 0>>, dur |-> 0,
         it |-> NoIter, finished |-> << >>, n |-> 0, data |-> NoRecordings,
         cmd |-> NoCmd, i |-> 0, frames |-> << >>, returncode |-> NoResult,
         req |-> NoRequest,
         resp |-> [status |-> 0, success |-> FALSE, fields |-> {}]]

\* the caller enters operation op at label pc, inside the handler of the
\* request it serves, if any; the handler has read the body into the call's
\* arguments
Enter(t, op, pc, arg) ==
    [Idle EXCEPT !.pc = pc, !.op = op, !.arg = arg,
                 !.req = [th[t].req EXCEPT !.body = NoBody]]

\* the caller moves on inside its operation
Goto(t, pc) == [th[t] EXCEPT !.pc = pc]

\* the ControlFacade's answer to the operation's result (router/server.py)
ApiResponse(status, success) ==
    [status |-> status, success |-> success, fields |-> {"success", "data", "message"}]

HTTPException(status) ==
    [status |-> status, success |-> FALSE, fields |-> {"detail"}]

\* POST /stream/stop
stop_stream_endpoint(success) == ApiResponse(200, success)

\* POST /stream/start
start_stream_endpoint(success) ==
    IF success THEN ApiResponse(200, TRUE) ELSE HTTPException(500)

\* POST /record/stop: the 404 is raised inside the try and caught by
\* `except Exception`, which raises the 500
stop_recording_endpoint(success) ==
    IF success THEN ApiResponse(200, TRUE) ELSE HTTPException(500)

NoResponse == Idle.resp

\* print(...): one more line on the caller's output
Say(rec, line) == [rec EXCEPT !.log = Append(@, line)]

\* the operation returns or raises: its result, the facade's answer (the
\* request is then served); its local variables are gone
Result(rec, ret, resp) ==
    [rec EXCEPT !.pc = "idle", !.ret = ret, !.resp = resp,
                !.ssh = None, !.ff = None, !.path = Idle.path, !.dur = 0,
                !.it = NoIter, !.finished = << >>, !.cmd = NoCmd,
                !.i = 0, !.req = NoRequest]

\* the operation returns after a last printed line
Return(rec, ret, line, resp) == Result(Say(rec, line), ret, resp)

Bool(b) == IF b THEN "True" ELSE "False"

\* ------------------------------------------------------------- initial
Init ==
    /\ proc = << >>
    /\ _stream_process = None
    /\ _http_server_process = None
    /\ _recording_processes = NoRecordings
    /\ now = 1
    /\ th = [t \in Threads |-> Idle]
    /\ capacity = MaxProcs
    /\ DEFAULT = module_globals
    /\ files = {}

\* --------------------------------------------------- get_stream_status
\* streaming taken as the liveness of both processes of the pipe
get_stream_status_both_ends ==
    [streaming |-> /\ _stream_process # None
                   /\ poll_is_None(_stream_process)
                   /\ poll_is_None(proc[_stream_process].src),
     http_server |-> _http_server_process # None /\ poll_is_None(_http_server_process),
     stream_url |-> IF _http_server_process # None THEN "http://localhost:8000/stream.m3u8"
                    ELSE "null"]

\* control.py:197-202
get_stream_status ==
    [streaming |-> _stream_process # None /\ poll_is_None(_stream_process),
     http_server |-> _http_server_process # None /\ poll_is_None(_http_server_process),
     stream_url |-> IF _http_server_process # None THEN "http://localhost:8000/stream.m3u8"
                    ELSE "null"]

\* ---------------------------------------------------------- start_stream
\* the liveness test of control.py:96 inverted (`poll() is not None`)
stream_already_running_inverted ==
    _stream_process # None /\ ~poll_is_None(_stream_process)

\* the liveness test of control.py:96 dropped (`if _stream_process:`)
stream_already_running_unpolled == _stream_process # None

\* control.py:96  `if _stream_process and _stream_process.poll() is None`
stream_already_running == Alive(_stream_process)

\* a server spawned by every start_stream
http_server_never_reused == FALSE

\* control.py:43  `if _http_server_process and _http_server_process.poll() is None`
http_server_already_running == Alive(_http_server_process)

\* control.py:96-98, or on to start_http_server (control.py:101, 43-45)
SS_Check(t) ==
    /\ th[t].pc = "idle"
    /\ IF stream_already_running
       THEN th' = [th EXCEPT ![t] =
                     Return(Enter(t, "start_stream", "idle", None), "True",
                            "Stream already running", start_stream_endpoint(TRUE))]
       ELSE IF http_server_already_running
            THEN th' = [th EXCEPT ![t] = Enter(t, "start_stream", "ss_spawn_ssh", None)]
            ELSE th' = [th EXCEPT ![t] = Enter(t, "start_stream", "hs_spawn", None)]
    /\ UNCHANGED <<proc, _stream_process, _http_server_process, _recording_processes, now, capacity, DEFAULT, files>>

\* control.py:47-52: the server is spawned, or Popen raises (65-67, then 101-102)
HS_Spawn(t) ==
    /\ th[t].pc = "hs_spawn"
    /\ \/ /\ CanSpawn
          /\ proc' = Popen("http", "server", None)
          /\ _http_server_process' = Len(proc) + 1
          /\ th' = [th EXCEPT ![t] = Goto(t, "hs_poll")]
       \/ /\ th' = [th EXCEPT ![t] =
                      Return(th[t], "False", "Error starting HTTP server",
                             start_stream_endpoint(FALSE))]
          /\ UNCHANGED <<proc, _http_server_process>>
    /\ UNCHANGED <<_stream_process, _recording_processes, now, capacity, DEFAULT, files>>

\* the server taken as started without the poll of control.py:55
HS_Poll_unchecked(t) ==
    /\ th[t].pc = "hs_poll"
    /\ th' = [th EXCEPT ![t] = Goto(t, "ss_spawn_ssh")]
    /\ UNCHANGED <<proc, _stream_process, _http_server_process, _recording_processes, now, capacity, DEFAULT, files>>

\* control.py:55-63 after time.sleep(1), then 101-102
HS_Poll(t) ==
    /\ th[t].pc = "hs_poll"
    /\ IF poll_is_None(_http_server_process)
       THEN th' = [th EXCEPT ![t] = Goto(t, "ss_spawn_ssh")]
       ELSE th' = [th EXCEPT ![t] =
                     Return(th[t], "False", "Failed to start HTTP server",
                            start_stream_endpoint(FALSE))]
    /\ UNCHANGED <<proc, _stream_process, _http_server_process, _recording_processes, now, capacity, DEFAULT, files>>

\* control.py:137: the remote capture is spawned, or Popen raises (164-166)
SS_SpawnSsh(t) ==
    /\ th[t].pc = "ss_spawn_ssh"
    /\ \/ /\ CanSpawn
          /\ proc' = Popen("ssh", "stream", None)
          /\ th' = [th EXCEPT ![t] = [Goto(t, "ss_spawn_ffmpeg") EXCEPT
                                        !.ssh = Len(proc) + 1,
                                        !.cmd = ssh_cmd(parameters(NoArgs))]]
       \/ /\ th' = [th EXCEPT ![t] =
                      Return(th[t], "False", "Error starting stream",
                             start_stream_endpoint(FALSE))]
          /\ UNCHANGED proc
    /\ UNCHANGED <<_stream_process, _http_server_process, _recording_processes, now, capacity, DEFAULT, files>>

\* control.py:140-148: the local transcode is spawned on the remote's output and
\* stored in _stream_process, or Popen raises (164-166)
SS_SpawnFfmpeg(t) ==
    /\ th[t].pc = "ss_spawn_ffmpeg"
    /\ \/ /\ CanSpawn
          /\ proc' = close_stdout(Popen("ffmpeg", "stream", th[t].ssh), th[t].ssh)
          /\ _stream_process' = Len(proc) + 1
          /\ th' = [th EXCEPT ![t] = Goto(t, "ss_poll")]
       \/ /\ th' = [th EXCEPT ![t] =
                      Return(th[t], "False", "Error starting stream",
                             start_stream_endpoint(FALSE))]
          /\ UNCHANGED <<proc, _stream_process>>
    /\ UNCHANGED <<_http_server_process, _recording_processes, now, capacity, DEFAULT, files>>

\* control.py:151-162 after time.sleep(2)
SS_Poll(t) ==
    /\ th[t].pc = "ss_poll"
    /\ IF poll_is_None(_stream_process)
       THEN th' = [th EXCEPT ![t] =
                     Return(th[t], "True", "Stream started successfully",
                            start_stream_endpoint(TRUE))]
       ELSE th' = [th EXCEPT ![t] =
                     Return(th[t], "False", "Failed to start stream",
                            start_stream_endpoint(FALSE))]
    /\ UNCHANGED <<proc, _stream_process, _http_server_process, _recording_processes, now, capacity, DEFAULT, files>>

\* ----------------------------------------------------------- stop_stream
\* terminate(), wait(timeout) and kill() on a child of this process raise
\* nothing but TimeoutExpired, so the `except Exception` branches of
\* control.py:83-85 and 183-185 are never entered and `success` stays True.
\* "not running" answered as a failure
http_server_not_running_failure == FALSE

\* control.py:86-88: stop_http_server's answer when nothing is serving
http_server_not_running_result == TRUE

\* stop_http_server (control.py:73-75, 86-88) entered from stop_stream with the
\* processes pr and the caller's record rec: SIGTERM to a live server and on to
\* its wait, else stop_stream returns (188-191)
StopHttpServer(t, pr, rec) ==
    IF _http_server_process # None /\ pr[_http_server_process].st # "exited"
    THEN /\ proc' = terminate(pr, _http_server_process)
         /\ th' = [th EXCEPT ![t] = [rec EXCEPT !.pc = "hp_wait"]]
    ELSE /\ proc' = pr
         /\ th' = [th EXCEPT ![t] =
                     Return(rec, Bool(http_server_not_running_result),
                            "HTTP server not running",
                            stop_stream_endpoint(http_server_not_running_result))]

\* control.py:172-177: SIGTERM to a live stream process; else stop_http_server
ST_Check(t) ==
    /\ th[t].pc = "idle"
    /\ IF Alive(_stream_process)
       THEN /\ proc' = terminate(proc, _stream_process)
            /\ th' = [th EXCEPT ![t] = Enter(t, "stop_stream", "st_wait", None)]
       ELSE StopHttpServer(t, proc, Enter(t, "stop_stream", "idle", None))
    /\ UNCHANGED <<_stream_process, _http_server_process, _recording_processes, now, capacity, DEFAULT, files>>

\* control.py:178-182: wait(timeout=5) returns, or TimeoutExpired and kill();
\* then stop_http_server
ST_Wait(t) ==
    /\ th[t].pc = "st_wait"
    /\ IF poll_is_None(_stream_process)
       THEN StopHttpServer(t, kill(proc, _stream_process),
                           Say(th[t], "Stream force killed"))
       ELSE StopHttpServer(t, proc, Say(th[t], "Stream stopped"))
    /\ UNCHANGED <<_stream_process, _http_server_process, _recording_processes, now, capacity, DEFAULT, files>>

\* control.py:76-82 and 188-191: wait(timeout=5) returns, or TimeoutExpired and kill()
HP_Wait(t) ==
    /\ th[t].pc = "hp_wait"
    /\ IF poll_is_None(_http_server_process)
       THEN /\ proc' = kill(proc, _http_server_process)
            /\ th' = [th EXCEPT ![t] =
                        Return(th[t], "True", "HTTP server force killed",
                               stop_stream_endpoint(TRUE))]
       ELSE /\ proc' = proc
            /\ th' = [th EXCEPT ![t] =
                        Return(th[t], "True", "HTTP server stopped",
                               stop_stream_endpoint(TRUE))]
    /\ UNCHANGED <<_stream_process, _http_server_process, _recording_processes, now, capacity, DEFAULT, files>>

\* ------------------------------------------------------- start_recording
\* control.py:306-308
default_output_path(given) ==
    IF given = "None" THEN <<"/tmp/recording_%Y%m%d_%H%M%S.mp4", now>> ELSE <<given, 0>>

\* control.py:311  f"rec_{int(time.time())}"
new_recording_id == now

\* control.py:346-352  _recording_processes[recording_id] = {...}
Store(reg, id, entry) ==
    [k \in DOMAIN reg \cup {id} |-> IF k = id THEN entry ELSE reg[k]]

\* control.py:386  del _recording_processes[recording_id]
Del(reg, id) == [k \in DOMAIN reg \ {id} |-> reg[k]]

\* POST /record/start when start_recording returns None
start_recording_failed_endpoint == HTTPException(500)

\* control.py:306-332: path and id from the clock, then the remote capture is
\* spawned, or Popen raises (360-362)
start_recording(t, d) ==
    /\ th[t].pc = "idle"
    /\ \E given \in OutputPaths :
         LET rec == [Enter(t, "start_recording", "sr_spawn_ffmpeg", None) EXCEPT
                       !.rid = new_recording_id,
                       !.path = default_output_path(given),
                       !.dur = d,
                       !.cmd = ssh_cmd(parameters(NoArgs))]
         IN \/ /\ CanSpawn
               /\ proc' = Popen("ssh", "rec", None)
               /\ th' = [th EXCEPT ![t] = [rec EXCEPT !.ssh = Len(proc) + 1]]
            \/ /\ th' = [th EXCEPT ![t] =
                           Return(rec, "None", "Error starting recording",
                                  start_recording_failed_endpoint)]
               /\ UNCHANGED proc
    /\ UNCHANGED <<_stream_process, _http_server_process, _recording_processes, now, capacity, DEFAULT, files>>

\* start_recording called with a duration the facade lets through
SR_SpawnSsh(t) == \E d \in Durations : start_recording(t, d)

\* start_recording called on the controller itself
SR_Direct(t) == \E d \in DirectDurations : start_recording(t, d)

\* control.py:335-358: the local packager is spawned on the remote's output and
\* the entry is stored under the id, or Popen raises (360-362)
SR_SpawnFfmpeg(t) ==
    /\ th[t].pc = "sr_spawn_ffmpeg"
    /\ \/ /\ CanSpawn
          /\ proc' = close_stdout(Popen("ffmpeg", "rec", th[t].ssh), th[t].ssh)
          /\ _recording_processes' =
                Store(_recording_processes, th[t].rid,
                      [ssh_process |-> th[t].ssh, ffmpeg_process |-> Len(proc) + 1,
                       output_path |-> th[t].path, start_time |-> now,
                       duration |-> th[t].dur])
          /\ th' = [th EXCEPT ![t] =
                      Return(th[t], "Id", "Recording started", NoResponse)]
       \/ /\ th' = [th EXCEPT ![t] =
                      Return(th[t], "None", "Error starting recording",
                             start_recording_failed_endpoint)]
          /\ UNCHANGED <<proc, _recording_processes>>
    /\ UNCHANGED <<_stream_process, _http_server_process, now, capacity, DEFAULT, files>>

\* -------------------------------------------------------- stop_recording
\* an unknown id answered like a stop of nothing (as stop_stream answers)
not_found_tolerated == "True"

\* control.py:368-370: the result for an id that is not a key
not_found_result == "False"

\* control.py:393-395: TimeoutExpired or KeyError, caught by `except Exception`
StopRecordingError(t, pr, rec) ==
    /\ proc' = pr
    /\ _recording_processes' = _recording_processes
    /\ th' = [th EXCEPT ![t] =
                Return(rec, "False", "Error stopping recording",
                       stop_recording_endpoint(FALSE))]

\* control.py:385-391
StopRecordingDelete(t, pr, rec) ==
    IF rec.arg \in DOMAIN _recording_processes
    THEN /\ proc' = pr
         /\ _recording_processes' = Del(_recording_processes, rec.arg)
         /\ th' = [th EXCEPT ![t] =
                     Return(rec, "True", "Recording stopped",
                            stop_recording_endpoint(TRUE))]
    ELSE StopRecordingError(t, pr, rec)

\* control.py:380-382: SIGTERM to a live remote process and on to its wait;
\* else the entry is deleted
StopRecordingSsh(t, pr, rec) ==
    IF pr[rec.ssh].st # "exited"
    THEN /\ proc' = terminate(pr, rec.ssh)
         /\ _recording_processes' = _recording_processes
         /\ th' = [th EXCEPT ![t] = [rec EXCEPT !.pc = "sp_wait_ssh"]]
    ELSE StopRecordingDelete(t, pr, rec)

\* control.py:368-377: unknown id, or SIGTERM to a live local process and on to
\* its wait, or straight to the remote process
SP_Check(t) ==
    /\ th[t].pc = "idle"
    /\ \E id \in RecIds :
         IF id \notin DOMAIN _recording_processes
         THEN /\ th' = [th EXCEPT ![t] =
                          Return(Enter(t, "stop_recording", "idle", id),
                                 not_found_result, "Recording not found",
                                 stop_recording_endpoint(not_found_result = "True"))]
              /\ UNCHANGED <<proc, _recording_processes>>
         ELSE LET rec_info == _recording_processes[id]
                  rec == [Enter(t, "stop_recording", "idle", id) EXCEPT
                            !.ssh = rec_info.ssh_process,
                            !.ff = rec_info.ffmpeg_process]
              IN IF poll_is_None(rec.ff)
                 THEN /\ proc' = terminate(proc, rec.ff)
                      /\ _recording_processes' = _recording_processes
                      /\ th' = [th EXCEPT ![t] = [rec EXCEPT !.pc = "sp_wait_ffmpeg"]]
                 ELSE StopRecordingSsh(t, proc, rec)
    /\ UNCHANGED <<_stream_process, _http_server_process, now, capacity, DEFAULT, files>>

\* the remote process signalled without the wait for the local one
SP_WaitFfmpeg_unwaited(t) ==
    /\ th[t].pc = "sp_wait_ffmpeg"
    /\ StopRecordingSsh(t, proc, th[t])
    /\ UNCHANGED <<_stream_process, _http_server_process, now, capacity, DEFAULT, files>>

\* control.py:378: wait(timeout=10) returns, or TimeoutExpired (393-395)
SP_WaitFfmpeg(t) ==
    /\ th[t].pc = "sp_wait_ffmpeg"
    /\ IF poll_is_None(th[t].ff)
       THEN StopRecordingError(t, proc, th[t])
       ELSE StopRecordingSsh(t, proc, th[t])
    /\ UNCHANGED <<_stream_process, _http_server_process, now, capacity, DEFAULT, files>>

\* control.py:383: wait(timeout=5) returns, or TimeoutExpired (393-395)
SP_WaitSsh(t) ==
    /\ th[t].pc = "sp_wait_ssh"
    /\ IF poll_is_None(th[t].ssh)
       THEN StopRecordingError(t, proc, th[t])
       ELSE StopRecordingDelete(t, proc, th[t])
    /\ UNCHANGED <<_stream_process, _http_server_process, now, capacity, DEFAULT, files>>

\* ------------------------------------------------- dictionary iteration
\* iter(d): the iterator remembers the size of the dictionary (di_used) and
\* hands the keys out in insertion order.  A recording id is the second of
\* its start and the clock does not run backwards, so insertion order is
\* ascending id and the iterator's position is the last key handed out.
iter(reg) == [used |-> Cardinality(DOMAIN reg), last |-> 0]

\* next(it) raises RuntimeError("dictionary changed size during iteration")
changed_size(reg, it) == Cardinality(DOMAIN reg) # it.used

\* the keys next(it) has still to hand out
keys_left(reg, it) == {k \in DOMAIN reg : k > it.last}

first_key(S) == CHOOSE k \in S : \A j \in S : k <= j

\* -------------------------------------------------- get_recording_status
max(a, b) == IF a >= b THEN a ELSE b

\* control.py:416 without the min(100, ...)
\* the quotient is computed whatever the duration
division_by_zero_never(reg, recording_id) == FALSE

\* control.py:416: elapsed / rec_info['duration'] raises ZeroDivisionError
division_by_zero(reg, recording_id) ==
    recording_id \in DOMAIN reg /\ reg[recording_id].duration = 0

progress_percent_uncapped(elapsed, duration) == <<elapsed * 100, duration>>

\* control.py:416  min(100, (elapsed / duration) * 100) for duration > 0, as
\* the fraction <<numerator, denominator>>
progress_percent(elapsed, duration) ==
    IF elapsed * 100 >= 100 * duration THEN <<100, 1>> ELSE <<elapsed * 100, duration>>

\* control.py:403-417: the status of one id, taken from the registry reg, the
\* processes pr and the clock
recording_status(reg, pr, clock, recording_id) ==
    IF recording_id \notin DOMAIN reg
    THEN [error |-> recording_id]
    ELSE LET rec_info == reg[recording_id]
             elapsed == clock - rec_info.start_time
         IN [recording_id |-> recording_id,
             output_path |-> rec_info.output_path,
             elapsed_time |-> elapsed,
             remaining_time |-> max(0, rec_info.duration - elapsed),
             is_active |-> pr[rec_info.ffmpeg_process].st # "exited",
             progress_percent |-> progress_percent(elapsed, rec_info.duration)]

\* GET /record/status (server.py:256-262): whatever dictionary the controller
\* returns is the data of a success answer
get_recording_status_endpoint == ApiResponse(200, TRUE)

\* server.py:263-264, 295-296: an exception of the controller
endpoint_error == HTTPException(500)

\* a status query that drops the entry it finds exited
GS_One_reaping(t) ==
    /\ th[t].pc = "idle"
    /\ \E id \in RecIds \ {None} :
         /\ th' = [th EXCEPT ![t] =
                     Result([Enter(t, "get_recording_status", "idle", id) EXCEPT
                               !.data = recording_status(_recording_processes, proc, now, id)],
                            "Dict", get_recording_status_endpoint)]
         /\ _recording_processes' =
              IF id \in DOMAIN _recording_processes
                 /\ proc[_recording_processes[id].ffmpeg_process].st = "exited"
              THEN Del(_recording_processes, id)
              ELSE _recording_processes
    /\ UNCHANGED <<proc, _stream_process, _http_server_process, now,
                   capacity, DEFAULT, files>>

\* control.py:401-417: get_recording_status(recording_id) with an id
GS_One(t) ==
    /\ th[t].pc = "idle"
    /\ \E id \in RecIds \ {None} :
         th' = [th EXCEPT ![t] =
                  IF division_by_zero(_recording_processes, id)
                  THEN Result(Enter(t, "get_recording_status", "idle", id),
                              "ZeroDivisionError", endpoint_error)
                  ELSE Result([Enter(t, "get_recording_status", "idle", id) EXCEPT
                                 !.data = recording_status(_recording_processes, proc, now, id)],
                              "Dict", get_recording_status_endpoint)]
    /\ UNCHANGED <<proc, _stream_process, _http_server_process, _recording_processes, now,
                   capacity, DEFAULT, files>>

\* the entries whose local process has not exited
active_recordings_running(reg, pr) ==
    Cardinality({id \in DOMAIN reg : pr[reg[id].ffmpeg_process].st # "exited"})

\* control.py:421  'active_recordings': len(_recording_processes)
active_recordings(reg, pr) == Cardinality(DOMAIN reg)

\* control.py:418-426: get_recording_status() without an id.  The length is
\* taken first, then the comprehension iterates over the live keys(); this
\* step is its next(): RuntimeError, or the end and the return, or a key
GA_Next(t) ==
    /\ th[t].pc \in {"idle", "ga_next"}
    /\ LET rec == IF th[t].pc = "idle"
                  THEN [Enter(t, "get_recording_status", "ga_next", None) EXCEPT
                          !.n = active_recordings(_recording_processes, proc),
                          !.it = iter(_recording_processes)]
                  ELSE th[t]
           left == keys_left(_recording_processes, rec.it)
       IN IF changed_size(_recording_processes, rec.it)
          THEN th' = [th EXCEPT ![t] =
                        Result([rec EXCEPT !.data = NoRecordings, !.n = 0],
                               "RuntimeError", endpoint_error)]
          ELSE IF left = {}
               THEN th' = [th EXCEPT ![t] =
                             Result(rec, "Dict", get_recording_status_endpoint)]
               ELSE th' = [th EXCEPT ![t] =
                             [rec EXCEPT !.pc = "ga_item",
                                         !.it.last = first_key(left),
                                         !.rid = first_key(left)]]
    /\ UNCHANGED <<proc, _stream_process, _http_server_process, _recording_processes, now,
                   capacity, DEFAULT, files>>

\* control.py:423: the nested self.get_recording_status(rid) for the key
GA_Item(t) ==
    /\ th[t].pc = "ga_item"
    /\ th' = [th EXCEPT ![t] =
                IF division_by_zero(_recording_processes, th[t].rid)
                THEN Result([th[t] EXCEPT !.data = NoRecordings, !.n = 0],
                            "ZeroDivisionError", endpoint_error)
                ELSE [th[t] EXCEPT
                        !.pc = "ga_next",
                        !.data = Store(@, th[t].rid,
                                       recording_status(_recording_processes, proc, now,
                                                        th[t].rid))]]
    /\ UNCHANGED <<proc, _stream_process, _http_server_process, _recording_processes, now,
                   capacity, DEFAULT, files>>

\* -------------------------------------------- cleanup_finished_recordings
\* POST /cleanup (server.py:288-294)
cleanup_endpoint == ApiResponse(200, TRUE)

\* control.py:434 with the comparison turned round: the entries still recording
finished_is_running(p) == poll_is_None(p)

\* control.py:434  rec_info['ffmpeg_process'].poll() is not None
finished_test(p) == ~poll_is_None(p)

\* control.py:432-435: one turn of the scan over items(): RuntimeError, or the
\* end of the scan, or an entry and the poll of its local process
CL_Scan(t) ==
    /\ th[t].pc \in {"idle", "cl_scan"}
    /\ LET rec == IF th[t].pc = "idle"
                  THEN [Enter(t, "cleanup_finished_recordings", "cl_scan", None) EXCEPT
                          !.it = iter(_recording_processes)]
                  ELSE th[t]
           left == keys_left(_recording_processes, rec.it)
       IN IF changed_size(_recording_processes, rec.it)
          THEN th' = [th EXCEPT ![t] = Result(rec, "RuntimeError", endpoint_error)]
          ELSE IF left = {}
               THEN th' = [th EXCEPT ![t] = [rec EXCEPT !.pc = "cl_del"]]
               ELSE LET recording_id == first_key(left)
                        rec_info == _recording_processes[recording_id]
                    IN th' = [th EXCEPT ![t] =
                                [rec EXCEPT
                                   !.it.last = recording_id,
                                   !.finished =
                                      IF finished_test(rec_info.ffmpeg_process)
                                      THEN Append(@, recording_id) ELSE @]]
    /\ UNCHANGED <<proc, _stream_process, _http_server_process, _recording_processes, now,
                   capacity, DEFAULT, files>>

\* control.py:437-441: one turn of the deletions (n of them are done): the
\* del and its print, or KeyError, or the end and the return of len(finished)
CL_Del(t) ==
    /\ th[t].pc = "cl_del"
    /\ IF th[t].n = Len(th[t].finished)
       THEN /\ th' = [th EXCEPT ![t] = Result(th[t], "Count", cleanup_endpoint)]
            /\ UNCHANGED _recording_processes
       ELSE LET recording_id == th[t].finished[th[t].n + 1]
            IN IF recording_id \in DOMAIN _recording_processes
               THEN /\ _recording_processes' = Del(_recording_processes, recording_id)
                    /\ th' = [th EXCEPT ![t] =
                                Say([th[t] EXCEPT !.n = @ + 1],
                                    "Cleaned up finished recording")]
               ELSE /\ th' = [th EXCEPT ![t] =
                                Result([th[t] EXCEPT !.n = 0], "KeyError", endpoint_error)]
                    /\ UNCHANGED _recording_processes
    /\ UNCHANGED <<proc, _stream_process, _http_server_process, now, capacity, DEFAULT, files>>

\* --------------------------------------------------------- capture_frame
\* control.py:220-222: /tmp/frame_<timestamp to the second>.jpg
default_frame_path == <<"/tmp/frame_%Y%m%d_%H%M%S.jpg", now, 0>>

\* POST /capture (server.py:184-203)
capture_endpoint(frame_path_given) ==
    IF frame_path_given THEN ApiResponse(200, TRUE) ELSE HTTPException(500)

\* what subprocess.run(ssh_cmd, capture_output=True) comes to: it raises
\* (NoResult), or the remote command's exit code
ReturnCodes == {NoResult, 0, 1}

\* what open(output_path, 'wb') and f.write(result.stdout) come to: the file
\* is written, open raises (no such directory, no permission), or write raises
\* with the file created (no space left)
WriteOutcomes == {"written", "open_error", "write_error"}

\* the write attempted whatever the exit code
capture_succeeded_any(returncode) == TRUE

\* control.py:235  `if result.returncode == 0:`
capture_succeeded(returncode) == returncode = 0

\* control.py:224-247: the body of capture_frame for the caller's record rec:
\* the caller's record after it, the result, and the files it has created
capture_frame(rec, output_path, returncode, io) ==
    IF returncode = NoResult
    THEN [rec |-> Say(rec, "Error capturing frame"), ret |-> "None", created |-> {}]
    ELSE LET ran == [rec EXCEPT !.returncode = returncode]
         IN IF capture_succeeded(returncode)
            THEN IF io = "written"
                 THEN [rec |-> Say([ran EXCEPT !.frames = <<output_path>>],
                                   "Frame captured"),
                       ret |-> "Path", created |-> {output_path}]
                 ELSE [rec |-> Say(ran, "Error capturing frame"), ret |-> "None",
                       created |-> IF io = "write_error" THEN {output_path} ELSE {}]
            ELSE [rec |-> Say(ran, "Failed to capture frame"), ret |-> "None",
                  created |-> {}]

\* control.py:217-247: capture_frame() with the default output_path
CAP_Frame(t) ==
    /\ th[t].pc = "idle"
    /\ \E returncode \in ReturnCodes, io \in WriteOutcomes :
         LET r == capture_frame(Enter(t, "capture_frame", "idle", None),
                                default_frame_path, returncode, io)
         IN /\ th' = [th EXCEPT ![t] =
                        Result(r.rec, r.ret, capture_endpoint(r.ret = "Path"))]
            /\ files' = files \cup r.created
    /\ UNCHANGED <<proc, _stream_process, _http_server_process, _recording_processes, now,
                   capacity, DEFAULT>>

\* ------------------------------------------- capture_frames_from_stream
\* server.py:29, control.py:135: the playlist the stream's local process writes
\* and `python -m http.server` serves as /stream.m3u8
Playlist == <<"./hls_out/stream.m3u8", 0, 0>>

\* control.py:256-257: frame_<timestamp to the millisecond>.jpg in output_dir,
\* for sample i of a call made in second `clock`; samples of one call are
\* more than a millisecond apart
frame_path(output_dir, clock, i) == <<output_dir, clock, i + 1>>

\* the playlist can be fetched from http://localhost:8000/stream.m3u8
PlaylistServed == Alive(_http_server_process) /\ Playlist \in files

\* what one `ffmpeg -i http://localhost:8000/stream.m3u8 -vframes 1` run can
\* come to (control.py:270-283): "ok" exit 0 and the file written, "nofile"
\* exit 0 and no file, "failed" a non-zero exit, "timeout" TimeoutExpired
\* after 10 s, "error" another exception (ffmpeg cannot be launched)
SampleOutcomes ==
    IF PlaylistServed THEN {"ok", "nofile", "failed", "timeout", "error"}
    ELSE {"failed", "timeout", "error"}

\* control.py:275, 281, 283
failure_line(outcome) ==
    IF outcome = "timeout" THEN "Timeout capturing frame"
    ELSE IF outcome = "error" THEN "Error capturing frame"
    ELSE "Failed to capture frame"

\* a failed sample ends the batch with its exception
abort_failed(rec, line) == Result(Say(rec, line), "Raise", HTTPException(500))

\* control.py:274-283: a failed sample is printed and the loop goes on
skip_failed(rec, line) == Say([rec EXCEPT !.i = @ + 1], line)

\* control.py:252-253: os.makedirs(output_dir), captured_frames = []
CF_Call(t) ==
    /\ th[t].pc = "idle"
    /\ \E count \in 0 .. MaxCount :
         th' = [th EXCEPT ![t] = Enter(t, "capture_frames_from_stream", "cf_sample", count)]
    /\ UNCHANGED <<proc, _stream_process, _http_server_process, _recording_processes, now,
                   capacity, DEFAULT, files>>

\* control.py:255-283: sample i of range(count): the ffmpeg run and what
\* follows it
CF_Sample(t) ==
    /\ th[t].pc = "cf_sample"
    /\ th[t].op = "capture_frames_from_stream"
    /\ th[t].i < th[t].arg
    /\ \E outcome \in SampleOutcomes :
         LET output_path == frame_path("/tmp/frames", now, th[t].i)
         IN IF outcome = "ok"
            THEN /\ files' = files \cup {output_path}
                 /\ th' = [th EXCEPT ![t] =
                             Say([th[t] EXCEPT !.i = @ + 1,
                                               !.frames = Append(@, output_path)],
                                 "Frame captured")]
            ELSE /\ files' = files
                 /\ th' = [th EXCEPT ![t] = skip_failed(th[t], failure_line(outcome))]
    /\ UNCHANGED <<proc, _stream_process, _http_server_process, _recording_processes, now,
                   capacity, DEFAULT>>

\* control.py:285  return captured_frames
CF_Return(t) ==
    /\ th[t].pc = "cf_sample"
    /\ th[t].op = "capture_frames_from_stream"
    /\ th[t].i = th[t].arg
    /\ th' = [th EXCEPT ![t] = Result(th[t], "List", NoResponse)]
    /\ UNCHANGED <<proc, _stream_process, _http_server_process, _recording_processes, now,
                   capacity, DEFAULT, files>>

\* ---------------------------------------------- capture_frame_for_analysis
\* control.py:289-290: /tmp/analysis_frame_<timestamp to the second>.jpg
analysis_frame_path == <<"/tmp/analysis_frame_%Y%m%d_%H%M%S.jpg", now, 0>>

\* the direct capture taken whatever the stream's state
from_stream_never == FALSE

\* control.py:293  `if self.get_stream_status()['streaming']:`
from_stream == get_stream_status.streaming

\* control.py:289-293: the path is computed and the stream's state read
CA_Call(t) ==
    /\ th[t].pc = "idle"
    /\ th' = [th EXCEPT ![t] =
                [Enter(t, "capture_frame_for_analysis",
                       IF from_stream THEN "ca_stream" ELSE "ca_direct", None)
                 EXCEPT !.path = analysis_frame_path]]
    /\ UNCHANGED <<proc, _stream_process, _http_server_process, _recording_processes, now,
                   capacity, DEFAULT, files>>

\* control.py:294-295: capture_frames_from_stream(count=1, output_dir="/tmp"),
\* then `frames[0] if frames else None`
CA_Stream(t) ==
    /\ th[t].pc = "ca_stream"
    /\ \E outcome \in SampleOutcomes :
         LET output_path == frame_path("/tmp", now, 0)
             sampled == IF outcome = "ok"
                        THEN Say([th[t] EXCEPT !.i = @ + 1,
                                               !.frames = Append(@, output_path)],
                                 "Frame captured")
                        ELSE skip_failed(th[t], failure_line(outcome))
         IN /\ files' = IF outcome = "ok" THEN files \cup {output_path} ELSE files
            /\ th' = [th EXCEPT ![t] =
                        Result(sampled,
                               IF sampled.frames # << >> THEN "Path" ELSE "None",
                               NoResponse)]
    /\ UNCHANGED <<proc, _stream_process, _http_server_process, _recording_processes, now,
                   capacity, DEFAULT>>

\* control.py:298: capture_frame(output_path, width, height)
CA_Direct(t) ==
    /\ th[t].pc = "ca_direct"
    /\ \E returncode \in ReturnCodes, io \in WriteOutcomes :
         LET r == capture_frame(th[t], th[t].path, returncode, io)
         IN /\ th' = [th EXCEPT ![t] = Result(r.rec, r.ret, NoResponse)]
            /\ files' = files \cup r.created
    /\ UNCHANGED <<proc, _stream_process, _http_server_process, _recording_processes, now,
                   capacity, DEFAULT>>

\* the stream's local process writes its playlist (control.py:113-135)
WritePlaylist ==
    /\ \E p \in Pids :
         /\ proc[p].kind = "ffmpeg" /\ proc[p].owner = "stream"
         /\ proc[p].st # "exited"
    /\ Playlist \notin files
    /\ files' = files \cup {Playlist}
    /\ UNCHANGED <<proc, _stream_process, _http_server_process, _recording_processes, now, th,
                   capacity, DEFAULT>>

\* --------------------------------------------------- set_camera_settings
\* tests/test_camera_control.py:194-199: the values a caller sets, and a key
\* that is not a setting
new_setting ==
    [width |-> 1280, height |-> 720, framerate |-> 30, bitrate |-> 3000000,
     quality |-> 90]

\* the dictionaries given to set_camera_settings, as the keys of their
\* items() in order: up to MaxKeys different keys
SettingsInputs ==
    {items \in UNION {[1 .. n -> DOMAIN new_setting] : n \in 0 .. MaxKeys} :
        \A i, j \in DOMAIN items : items[i] = items[j] => i = j}

\* nothing is written unless every key is a setting
apply_settings_all_or_nothing(items, g, out) ==
    IF \A i \in DOMAIN items : items[i] \in valid_settings
    THEN [ret |-> "True",
          globals |-> [k \in DOMAIN g |->
                         IF \E i \in DOMAIN items : items[i] = k
                         THEN new_setting[k] ELSE g[k]],
          log |-> [i \in DOMAIN items |-> "Updated setting"]]
    ELSE [ret |-> "False", globals |-> g, log |-> <<"Invalid setting">>]

RECURSIVE apply_settings(_, _, _)
\* control.py:497-505: the loop over settings.items() from the globals g and
\* the printed lines out: the result, the globals and the lines
apply_settings(items, g, out) ==
    IF items = << >>
    THEN [ret |-> "True", globals |-> g, log |-> out]
    ELSE LET key == Head(items)
         IN IF key \in valid_settings
            THEN apply_settings(Tail(items), [g EXCEPT ![key] = new_setting[key]],
                                Append(out, "Updated setting"))
            ELSE [ret |-> "False", globals |-> g, log |-> Append(out, "Invalid setting")]

\* control.py:492-505
set_camera_settings(t, settings) ==
    /\ th[t].pc = "idle"
    /\ LET r == apply_settings(settings, DEFAULT, << >>)
       IN /\ DEFAULT' = r.globals
          /\ th' = [th EXCEPT ![t] =
                      Result([Enter(t, "set_camera_settings", "idle", settings) EXCEPT
                                !.log = r.log],
                             r.ret, NoResponse)]
    /\ UNCHANGED <<proc, _stream_process, _http_server_process, _recording_processes, now,
                   capacity, files>>

\* a caller sets one key
SET_One(t) == \E k \in DOMAIN new_setting : set_camera_settings(t, <<k>>)

\* a caller gives a dictionary of several keys
SET_Apply(t) == \E settings \in SettingsInputs : set_camera_settings(t, settings)

\* ------------------------------------------------- the wiring of a pipe
\* the statements of control.py:140-148 and 335-358 one at a time

\* control.py:140-145: the local transcode is spawned on the remote's output
\* and assigned to _stream_process, or Popen raises (164-166)
SS_SpawnLocal(t) ==
    /\ th[t].pc = "ss_spawn_ffmpeg"
    /\ \/ /\ CanSpawn
          /\ proc' = Popen("ffmpeg", "stream", th[t].ssh)
          /\ _stream_process' = Len(proc) + 1
          /\ th' = [th EXCEPT ![t] = Goto(t, "ss_close")]
       \/ /\ th' = [th EXCEPT ![t] =
                      Return(th[t], "False", "Error starting stream",
                             start_stream_endpoint(FALSE))]
          /\ UNCHANGED <<proc, _stream_process>>
    /\ UNCHANGED <<_http_server_process, _recording_processes, now, capacity, DEFAULT, files>>

\* control.py:148  ssh_process.stdout.close()
SS_CloseHandle(t) ==
    /\ th[t].pc = "ss_close"
    /\ proc' = close_stdout(proc, th[t].ssh)
    /\ th' = [th EXCEPT ![t] = Goto(t, "ss_poll")]
    /\ UNCHANGED <<_stream_process, _http_server_process, _recording_processes, now,
                   capacity, DEFAULT, files>>

\* control.py:335-340: the local packager is spawned on the remote's output,
\* or Popen raises (360-362)
SR_SpawnLocal(t) ==
    /\ th[t].pc = "sr_spawn_ffmpeg"
    /\ \/ /\ CanSpawn
          /\ proc' = Popen("ffmpeg", "rec", th[t].ssh)
          /\ th' = [th EXCEPT ![t] = [Goto(t, "sr_close") EXCEPT !.ff = Len(proc) + 1]]
       \/ /\ th' = [th EXCEPT ![t] =
                      Return(th[t], "None", "Error starting recording",
                             start_recording_failed_endpoint)]
          /\ UNCHANGED proc
    /\ UNCHANGED <<_stream_process, _http_server_process, _recording_processes, now,
                   capacity, DEFAULT, files>>

\* control.py:343  ssh_process.stdout.close()
SR_CloseHandle(t) ==
    /\ th[t].pc = "sr_close"
    /\ proc' = close_stdout(proc, th[t].ssh)
    /\ th' = [th EXCEPT ![t] = Goto(t, "sr_store")]
    /\ UNCHANGED <<_stream_process, _http_server_process, _recording_processes, now,
                   capacity, DEFAULT, files>>

\* control.py:346-358: the entry is stored under the id and the id returned
SR_Store(t) ==
    /\ th[t].pc = "sr_store"
    /\ _recording_processes' =
          Store(_recording_processes, th[t].rid,
                [ssh_process |-> th[t].ssh, ffmpeg_process |-> th[t].ff,
                 output_path |-> th[t].path, start_time |-> now,
                 duration |-> th[t].dur])
    /\ th' = [th EXCEPT ![t] = Return(th[t], "Id", "Recording started", NoResponse)]
    /\ UNCHANGED <<proc, _stream_process, _http_server_process, now, capacity, DEFAULT, files>>

\* --------------------------------------------------- controller instances
\* control.py:33-37, 510: every caller constructs a CameraController of its
\* own (take_photos does so on each call); an instance holds remote_host and
\* output_dir and nothing else
controller(t) == t

\* control.py:26-29, 193-215, 397-426: what the status operations of
\* instance c report on: the stream session and the registry are module
\* globals, the same for every instance
reports(c) ==
    [stream |-> get_stream_status,
     recordings |-> DOMAIN _recording_processes]

\* --------------------------------------------------- facade (server.py)
\* server.py:27  os.getenv("BACKEND_API_KEY", "dev-secret")
BACKEND_API_KEY == "dev-secret"

\* request.headers.get("x-api-key") of a request without the header
NoHeader == "<no x-api-key header>"

ApiKeys == {NoHeader, "", "other-secret", BACKEND_API_KEY}

\* any header value accepted
verify_api_key_present(api_key) == api_key # NoHeader /\ api_key # ""

\* server.py:85-90: `if not api_key or api_key != BACKEND_API_KEY: raise 401`
verify_api_key(api_key) ==
    ~ (api_key = NoHeader \/ api_key = "" \/ api_key # BACKEND_API_KEY)

\* the routes registered with dependencies=[Depends(verify_api_key)]
\* (server.py:108-296)
CameraEndpoints ==
    {"/scan-surroundings", "/stream/start", "/stream/stop", "/stream/status",
     "/capture", "/record/start", "/record/stop", "/record/status",
     "/camera/test", "/cleanup"}

\* the routes registered without it (server.py:102, 299)
OpenEndpoints == {"/health", "/stream.m3u8"}

\* one Field(..., ge=..., le=...) of a request model; required: no default
Field(name, ge, le, required) ==
    [name |-> name, ge |-> ge, le |-> le, required |-> required]

\* server.py:54-74: the ranged fields of each request model; segmentDuration
\* (0.1 .. 5.0) is counted in tenths of a second
Fields(endpoint) ==
    IF endpoint = "/scan-surroundings"
    THEN {Field("count", 1, 20, FALSE)}
    ELSE IF endpoint = "/stream/start"
    THEN {Field("width", 320, 1920, FALSE), Field("height", 240, 1080, FALSE),
          Field("framerate", 5, 60, FALSE),
          Field("bitrate", 500000, 10000000, FALSE),
          Field("segmentDuration", 1, 50, FALSE),
          Field("playlistSize", 3, 20, FALSE)}
    ELSE IF endpoint = "/capture"
    THEN {Field("width", 320, 1920, FALSE), Field("height", 240, 1080, FALSE)}
    ELSE IF endpoint = "/record/start"
    THEN {Field("duration", 1, 3600, TRUE),
          Field("width", 320, 1920, FALSE), Field("height", 240, 1080, FALSE),
          Field("framerate", 5, 60, FALSE),
          Field("bitrate", 500000, 10000000, FALSE)}
    ELSE {}

\* the values a client sends for field f: the two ends of its range and
\* their outer neighbours
Probes(f) == {f.ge - 1, f.ge, f.le, f.le + 1}

\* the bodies sent to an endpoint: every field left out, or one field given
Bodies(endpoint) ==
    {NoBody} \cup
    UNION {{[name |-> f.name, value |-> v] : v \in Probes(f)} : f \in Fields(endpoint)}

\* the HTTP requests a client sends: any header with the default body, a
\* right or a wrong key with a body that gives a field
Requests ==
    UNION {{r \in [endpoint : {e}, key : ApiKeys, body : Bodies(e)] :
                r.body = NoBody \/ r.key \in {"other-secret", BACKEND_API_KEY}} :
              e \in CameraEndpoints \cup OpenEndpoints}

\* every value accepted
in_range_unchecked(f, value) == TRUE

\* pydantic's ge / le constraint of field f
in_range(f, value) == f.ge <= value /\ value <= f.le

\* the request model of the endpoint accepts the body: no required field is
\* missing and the given field lies in its range
validate(endpoint, body) ==
    \A f \in Fields(endpoint) :
        /\ f.required => body.name = f.name
        /\ body.name = f.name => in_range(f, body.value)

\* the request has reached its handler: the dependency and the request model
\* have let it through, and it is not answered yet
Admitted(t, endpoint) ==
    /\ th[t].pc = "idle"
    /\ th[t].req.endpoint = endpoint
    /\ endpoint \in CameraEndpoints => verify_api_key(th[t].req.key)
    /\ validate(endpoint, th[t].req.body)

\* the server receives a request
FA_Receive(t) ==
    /\ th[t].pc = "idle"
    /\ th[t].req = NoRequest
    /\ \E r \in Requests : th' = [th EXCEPT ![t] = [Idle EXCEPT !.req = r]]
    /\ UNCHANGED <<proc, _stream_process, _http_server_process, _recording_processes, now,
                   capacity, DEFAULT, files>>

\* server.py:85-90: verify_api_key raises HTTPException(401); the handler is
\* not called
FA_Unauthorized(t) ==
    /\ th[t].pc = "idle"
    /\ th[t].req.endpoint \in CameraEndpoints
    /\ ~ verify_api_key(th[t].req.key)
    /\ th' = [th EXCEPT ![t] = Result(th[t], "-", HTTPException(401))]
    /\ UNCHANGED <<proc, _stream_process, _http_server_process, _recording_processes, now,
                   capacity, DEFAULT, files>>

\* server.py:54-74: the body fails its request model after the dependency
\* has passed: 422, the handler is not called
FA_Unprocessable(t) ==
    /\ th[t].pc = "idle"
    /\ th[t].req # NoRequest
    /\ th[t].req.endpoint \in CameraEndpoints => verify_api_key(th[t].req.key)
    /\ ~ validate(th[t].req.endpoint, th[t].req.body)
    /\ th' = [th EXCEPT ![t] = Result(th[t], "-", HTTPException(422))]
    /\ UNCHANGED <<proc, _stream_process, _http_server_process, _recording_processes, now,
                   capacity, DEFAULT, files>>

\* server.py:102-105: GET /health
FA_Health(t) ==
    /\ Admitted(t, "/health")
    /\ th' = [th EXCEPT ![t] =
                Result(Enter(t, "health_check", "idle", None), "-",
                       [status |-> 200, success |-> TRUE, fields |-> {"ok", "status", "service"}])]
    /\ UNCHANGED <<proc, _stream_process, _http_server_process, _recording_processes, now,
                   capacity, DEFAULT, files>>

\* server.py:299-306: GET /stream.m3u8: the playlist file if it exists, else 404
get_hls_playlist ==
    IF Playlist \in files
    THEN [status |-> 200, success |-> TRUE, fields |-> {"file"}]
    ELSE HTTPException(404)

FA_Playlist(t) ==
    /\ Admitted(t, "/stream.m3u8")
    /\ th' = [th EXCEPT ![t] =
                Result(Enter(t, "get_hls_playlist", "idle", None), "-", get_hls_playlist)]
    /\ UNCHANGED <<proc, _stream_process, _http_server_process, _recording_processes, now,
                   capacity, DEFAULT, files>>

\* server.py:168-178: GET /stream/status
FA_StreamStatus(t) ==
    /\ Admitted(t, "/stream/status")
    /\ th' = [th EXCEPT ![t] =
                Result([Enter(t, "get_stream_status", "idle", None) EXCEPT
                          !.data = get_stream_status],
                       "Dict", ApiResponse(200, TRUE))]
    /\ UNCHANGED <<proc, _stream_process, _http_server_process, _recording_processes, now,
                   capacity, DEFAULT, files>>

\* server.py:266-282, control.py:443-490: POST /camera/test: two remote
\* commands are run and their results reported
FA_CameraTest(t) ==
    /\ Admitted(t, "/camera/test")
    /\ \E connection_ok \in BOOLEAN :
         th' = [th EXCEPT ![t] =
                  Return(Enter(t, "test_camera_connection", "idle", None),
                         Bool(connection_ok),
                         IF connection_ok THEN "Camera connection successful"
                         ELSE "Camera connection failed",
                         ApiResponse(200, connection_ok))]
    /\ UNCHANGED <<proc, _stream_process, _http_server_process, _recording_processes, now,
                   capacity, DEFAULT, files>>

\* control.py:517-518: save_dir/photo_<i+1>.jpg
photo_path(save_dir, i) == <<save_dir, 0, i + 1>>

\* the photo counts asked for
ScanCounts == {1, 2}

\* server.py:108-127, control.py:508-515: POST /scan-surroundings calls
\* take_photos(count, "/tmp/scan_photos")
TP_Call(t) ==
    /\ th[t].pc = "idle"
    /\ \E count \in ScanCounts :
         th' = [th EXCEPT ![t] = Enter(t, "take_photos", "tp_photo", count)]
    /\ UNCHANGED <<proc, _stream_process, _http_server_process, _recording_processes, now,
                   capacity, DEFAULT, files>>

\* control.py:517-528: photo i of range(count), through capture_frame
TP_Photo(t) ==
    /\ th[t].pc = "tp_photo"
    /\ th[t].i < th[t].arg
    /\ \E returncode \in ReturnCodes, io \in WriteOutcomes :
         LET path == photo_path("/tmp/scan_photos", th[t].i)
             r == capture_frame(th[t], path, returncode, io)
         IN /\ th' = [th EXCEPT ![t] =
                        [r.rec EXCEPT !.i = @ + 1,
                                      !.returncode = NoResult,
                                      !.frames = IF r.ret = "Path"
                                                 THEN Append(th[t].frames, path)
                                                 ELSE th[t].frames]]
            /\ files' = files \cup r.created
    /\ UNCHANGED <<proc, _stream_process, _http_server_process, _recording_processes, now,
                   capacity, DEFAULT>>

\* control.py:530, server.py:117-124
TP_Return(t) ==
    /\ th[t].pc = "tp_photo"
    /\ th[t].i = th[t].arg
    /\ th' = [th EXCEPT ![t] = Result(th[t], "List", ApiResponse(200, TRUE))]
    /\ UNCHANGED <<proc, _stream_process, _http_server_process, _recording_processes, now,
                   capacity, DEFAULT, files>>

\* the handler of an admitted request calls its operation
FA_Handle(t) ==
    \/ Admitted(t, "/scan-surroundings") /\ TP_Call(t)
    \/ Admitted(t, "/stream/start") /\ SS_Check(t)
    \/ Admitted(t, "/stream/stop") /\ ST_Check(t)
    \/ Admitted(t, "/capture") /\ CAP_Frame(t)
    \/ Admitted(t, "/record/start") /\ SR_SpawnSsh(t)
    \/ Admitted(t, "/record/stop") /\ SP_Check(t)
    \/ Admitted(t, "/record/status") /\ (GS_One(t) \/ GA_Next(t))
    \/ Admitted(t, "/cleanup") /\ CL_Scan(t)

\* the operation called by a handler goes on
FA_Continue(t) ==
    /\ th[t].pc # "idle"
    /\ \/ HS_Spawn(t) \/ HS_Poll(t) \/ SS_SpawnSsh(t) \/ SS_SpawnFfmpeg(t) \/ SS_Poll(t)
       \/ ST_Wait(t) \/ HP_Wait(t)
       \/ SR_SpawnFfmpeg(t) \/ SP_WaitFfmpeg(t) \/ SP_WaitSsh(t)
       \/ GA_Next(t) \/ GA_Item(t) \/ CL_Scan(t) \/ CL_Del(t)
       \/ TP_Photo(t) \/ TP_Return(t)

\* ----------------------------------------------------------- environment
\* a running process exits on its own: end of capture, end of input, a
\* crash, a lost connection, or its reaction to SIGTERM
ProcExit ==
    /\ \E p \in Pids :
         /\ proc[p].st # "exited"
         /\ proc' = [proc EXCEPT ![p].st = "exited"]
    /\ UNCHANGED <<_stream_process, _http_server_process, _recording_processes, now, th,
                   capacity, DEFAULT, files>>

\* the local process is never given end of input (a write end of its input
\* left open outside the remote process)
EndOfInput_never == FALSE /\ UNCHANGED vars

\* control.py:332-343, 137-148: the local process reads the remote process's
\* stdout.  Popen keeps no write end in the controller, so when the remote
\* process has exited the local one reads end of input, finishes its file and
\* exits
EndOfInput ==
    /\ \E p \in Pids :
         /\ proc[p].src # None
         /\ proc[proc[p].src].st = "exited"
         /\ proc[p].st # "exited"
         /\ proc' = [proc EXCEPT ![p].st = "exited"]
    /\ UNCHANGED <<_stream_process, _http_server_process, _recording_processes, now, th,
                   capacity, DEFAULT, files>>

\* the wall clock reaches the next second
Tick ==
    /\ now < MaxTime
    /\ now' = now + 1
    /\ UNCHANGED <<proc, _stream_process, _http_server_process, _recording_processes, th,
                   capacity, DEFAULT, files>>

\* the wall clock reaches the next second, through a recording's planned
\* duration and past it
Elapse ==
    /\ now < MaxClock
    /\ now' = now + 1
    /\ UNCHANGED <<proc, _stream_process, _http_server_process, _recording_processes, th,
                   capacity, DEFAULT, files>>

\* ------------------------------------------------------- specifications
\* one caller, each call made after the previous one returned
Next ==
    \/ SS_Check(FirstThread)
    \/ HS_Spawn(FirstThread)
    \/ HS_Poll(FirstThread)
    \/ SS_SpawnSsh(FirstThread)
    \/ SS_SpawnFfmpeg(FirstThread)
    \/ SS_Poll(FirstThread)
    \/ ST_Check(FirstThread)
    \/ ST_Wait(FirstThread)
    \/ HP_Wait(FirstThread)
    \/ SR_SpawnSsh(FirstThread)
    \/ SR_SpawnFfmpeg(FirstThread)
    \/ SP_Check(FirstThread)
    \/ SP_WaitFfmpeg(FirstThread)
    \/ SP_WaitSsh(FirstThread)
    \/ ProcExit
    \/ Tick

Spec == Init /\ [][Next]_vars

\* callers of the stream session on several threads
StreamStep(t) ==
    \/ SS_Check(t)
    \/ HS_Spawn(t)
    \/ HS_Poll(t)
    \/ SS_SpawnSsh(t)
    \/ SS_SpawnFfmpeg(t)
    \/ SS_Poll(t)
    \/ ST_Check(t)
    \/ ST_Wait(t)
    \/ HP_Wait(t)

ConcStreamNext ==
    \/ \E t \in Threads : StreamStep(t)
    \/ ProcExit

ConcInit ==
    /\ proc = << >>
    /\ _stream_process = None
    /\ _http_server_process = None
    /\ _recording_processes = NoRecordings
    /\ now = 1
    /\ th = [t \in Threads |-> Idle]
    /\ capacity = MaxConcProcs
    /\ DEFAULT = module_globals
    /\ files = {}

ConcStreamSpec == ConcInit /\ [][ConcStreamNext]_vars

\* one caller of the recording operations
RecNext ==
    \/ SR_SpawnSsh(FirstThread)
    \/ SR_SpawnFfmpeg(FirstThread)
    \/ SP_Check(FirstThread)
    \/ SP_WaitFfmpeg(FirstThread)
    \/ SP_WaitSsh(FirstThread)
    \/ GS_One(FirstThread)
    \/ GA_Next(FirstThread)
    \/ GA_Item(FirstThread)
    \/ CL_Scan(FirstThread)
    \/ CL_Del(FirstThread)
    \/ ProcExit
    \/ Tick

RecSpec == Init /\ [][RecNext]_vars

\* one caller that changes settings and starts streams and recordings
SettingsNext ==
    \/ SET_One(FirstThread)
    \/ SS_Check(FirstThread)
    \/ HS_Spawn(FirstThread)
    \/ HS_Poll(FirstThread)
    \/ SS_SpawnSsh(FirstThread)
    \/ SS_SpawnFfmpeg(FirstThread)
    \/ SS_Poll(FirstThread)
    \/ SR_SpawnSsh(FirstThread)
    \/ SR_SpawnFfmpeg(FirstThread)
    \/ ProcExit

SettingsSpec == Init /\ [][SettingsNext]_vars

\* callers of the recording operations on several threads; a thread may be
\* switched between any two turns of a loop over the registry
RecStep(t) ==
    \/ SR_SpawnSsh(t)
    \/ SR_SpawnFfmpeg(t)
    \/ SP_Check(t)
    \/ SP_WaitFfmpeg(t)
    \/ SP_WaitSsh(t)
    \/ GA_Next(t)
    \/ GA_Item(t)
    \/ CL_Scan(t)
    \/ CL_Del(t)

ConcRecNext ==
    \/ \E t \in Threads : RecStep(t)
    \/ ProcExit
    \/ Tick

ConcRecInit ==
    /\ proc = << >>
    /\ _stream_process = None
    /\ _http_server_process = None
    /\ _recording_processes = NoRecordings
    /\ now = 1
    /\ th = [t \in Threads |-> Idle]
    /\ capacity = MaxConcRecProcs
    /\ DEFAULT = module_globals
    /\ files = {}

ConcRecSpec == ConcRecInit /\ [][ConcRecNext]_vars

\* recordings left to run to their end, the local process scheduled fairly
RecEndNext ==
    \/ SR_SpawnSsh(FirstThread)
    \/ SR_SpawnFfmpeg(FirstThread)
    \/ GS_One(FirstThread)
    \/ ProcExit
    \/ EndOfInput
    \/ Tick

RecEndSpec == Init /\ [][RecEndNext]_vars /\ WF_vars(EndOfInput)

\* one caller that starts and stops the stream and captures frames
CaptureNext ==
    \/ StreamStep(FirstThread)
    \/ CF_Call(FirstThread)
    \/ CF_Sample(FirstThread)
    \/ CF_Return(FirstThread)
    \/ CAP_Frame(FirstThread)
    \/ CA_Call(FirstThread)
    \/ CA_Stream(FirstThread)
    \/ CA_Direct(FirstThread)
    \/ WritePlaylist
    \/ ProcExit

CaptureInit ==
    /\ proc = << >>
    /\ _stream_process = None
    /\ _http_server_process = None
    /\ _recording_processes = NoRecordings
    /\ now = 1
    /\ th = [t \in Threads |-> Idle]
    /\ capacity = MaxCaptureProcs
    /\ DEFAULT = module_globals
    /\ files = {}

CaptureSpec == CaptureInit /\ [][CaptureNext]_vars

\* one client of the HTTP server, whose requests are served one at a time
FacadeNext ==
    \/ FA_Receive(FirstThread)
    \/ FA_Unauthorized(FirstThread)
    \/ FA_Unprocessable(FirstThread)
    \/ FA_Health(FirstThread)
    \/ FA_Playlist(FirstThread)
    \/ FA_StreamStatus(FirstThread)
    \/ FA_CameraTest(FirstThread)
    \/ FA_Handle(FirstThread)
    \/ FA_Continue(FirstThread)
    \/ ProcExit

FacadeInit ==
    /\ proc = << >>
    /\ _stream_process = None
    /\ _http_server_process = None
    /\ _recording_processes = NoRecordings
    /\ now = 1
    /\ th = [t \in Threads |-> Idle]
    /\ capacity = MaxConcRecProcs
    /\ DEFAULT = module_globals
    /\ files = {}

FacadeSpec == FacadeInit /\ [][FacadeNext]_vars

\* one caller of the controller itself that starts, stops and queries
\* recordings
DirectNext ==
    \/ SR_Direct(FirstThread)
    \/ SR_SpawnFfmpeg(FirstThread)
    \/ SP_Check(FirstThread)
    \/ SP_WaitFfmpeg(FirstThread)
    \/ SP_WaitSsh(FirstThread)
    \/ GS_One(FirstThread)
    \/ GA_Next(FirstThread)
    \/ GA_Item(FirstThread)
    \/ ProcExit
    \/ Tick

DirectSpec == Init /\ [][DirectNext]_vars

\* one caller of set_camera_settings
SetNext == SET_Apply(FirstThread)

SetSpec == Init /\ [][SetNext]_vars

\* one caller that starts the stream and recordings, statement by statement
WireNext ==
    \/ SS_Check(FirstThread)
    \/ HS_Spawn(FirstThread)
    \/ HS_Poll(FirstThread)
    \/ SS_SpawnSsh(FirstThread)
    \/ SS_SpawnLocal(FirstThread)
    \/ SS_CloseHandle(FirstThread)
    \/ SS_Poll(FirstThread)
    \/ SR_SpawnSsh(FirstThread)
    \/ SR_SpawnLocal(FirstThread)
    \/ SR_CloseHandle(FirstThread)
    \/ SR_Store(FirstThread)
    \/ ProcExit

WireSpec == Init /\ [][WireNext]_vars

\* one caller that starts and stops the stream again and again
RestartNext ==
    \/ StreamStep(FirstThread)
    \/ ProcExit

RestartSpec == ConcInit /\ [][RestartNext]_vars

\* the state in which start_recording(duration) has just returned rec_1, for
\* each planned duration
ProgressInit ==
    /\ proc = <<[kind |-> "ssh", owner |-> "rec", src |-> None, st |-> "running",
                 out |-> "closed"],
                [kind |-> "ffmpeg", owner |-> "rec", src |-> 1, st |-> "running",
                 out |-> "held"]>>
    /\ _stream_process = None
    /\ _http_server_process = None
    /\ \E d \in 1 .. MaxDuration :
          _recording_processes =
             Store(NoRecordings, 1,
                   [ssh_process |-> 1, ffmpeg_process |-> 2,
                    output_path |-> <<"/tmp/recording_%Y%m%d_%H%M%S.mp4", 1>>,
                    start_time |-> 1, duration |-> d])
    /\ now = 1
    /\ th = [t \in Threads |-> Idle]
    /\ capacity = 2
    /\ DEFAULT = module_globals
    /\ files = {}

\* the status of one recording read while time passes
ProgressNext ==
    \/ GS_One(FirstThread)
    \/ Elapse
    \/ ProcExit

ProgressSpec == ProgressInit /\ [][ProgressNext]_vars

\* --------------------------------------------------------------- claims
\* the caller's last call was op and it has returned
Returned(t, op) == th[t].pc = "idle" /\ th[t].op = op

\* the caller's current or last call printed line
Said(t, line) == \E i \in 1 .. Len(th[t].log) : th[t].log[i] = line

\* this step is a step of caller t inside op
StepOf(t, op) == th'[t] # th[t] /\ th'[t].op = op

\* this step is the one in which caller t's call of op returns
Returns(t, op) == StepOf(t, op) /\ th'[t].pc = "idle"

\* this step is the first of a call of op by caller t
Calls(t, op) == StepOf(t, op) /\ th[t].pc = "idle"

\* C1: a start_stream call made while the stream's local process is alive
\* returns True in that step, spawns no process, and leaves _stream_process
\* (and the server handle) as it was.
C1_SingleInstance ==
    [][\A t \in Threads :
         (Calls(t, "start_stream") /\ Alive(_stream_process))
         => /\ th'[t].pc = "idle"
            /\ th'[t].ret = "True"
            /\ proc' = proc
            /\ _stream_process' = _stream_process
            /\ _http_server_process' = _http_server_process]_vars

C1_Witness ==
    \E t \in Threads :
        /\ Returned(t, "start_stream")
        /\ th[t].log = <<"Stream already running">>
        /\ th[t].ret = "True"
        /\ Alive(_stream_process)

\* the local processes of stream pipes that have not exited
LiveStreamPipes ==
    {p \in Pids : proc[p].owner = "stream" /\ proc[p].kind = "ffmpeg"
                  /\ proc[p].st # "exited"}

\* C2: however two start_stream calls interleave, at most one pipe started by
\* start_stream is alive.
C2_AtMostOnePipeline == Cardinality(LiveStreamPipes) <= 1

\* C3: stop_stream called with no live stream process returns True, every
\* time, and POST /stream/stop answers 200 with a success field.
C3_StopIdempotent ==
    \A t \in Threads :
        (/\ Returned(t, "stop_stream")
         /\ ~Said(t, "Stream stopped")
         /\ ~Said(t, "Stream force killed"))
        => /\ th[t].ret = "True"
           /\ th[t].resp.status = 200
           /\ "success" \in th[t].resp.fields

C3_Witness ==
    \E t \in Threads :
        /\ Returned(t, "stop_stream")
        /\ th[t].log = <<"HTTP server not running">>
        /\ th[t].ret = "True"
        /\ _stream_process # None

C5_Original ==
    [][\A t \in Threads :
         (Returns(t, "start_stream") /\ th'[t].ret = "True")
         => (/\ get_stream_status.streaming
             /\ get_stream_status.http_server
             /\ get_stream_status.stream_url # "null")']_vars

\* C5 amended: when start_stream returns True, the status in the state it
\* returns in reports streaming=true and a non-null stream_url.
C5_StartedIsStreaming ==
    [][\A t \in Threads :
         (Returns(t, "start_stream") /\ th'[t].ret = "True")
         => (/\ get_stream_status.streaming
             /\ get_stream_status.stream_url # "null")']_vars

C5_Witness ==
    \E t \in Threads :
        /\ Returned(t, "start_stream")
        /\ th[t].ret = "True"
        /\ Said(t, "Stream already running")
        /\ get_stream_status.streaming
        /\ ~get_stream_status.http_server

\* C6: a start_recording call that stores its entry stores it under an id
\* that is not in the registry, so the registry gains one entry and no entry
\* of an earlier recording is overwritten.
C6_FreshId ==
    [][\A t \in Threads :
         (Returns(t, "start_recording") /\ th'[t].ret = "Id")
         => /\ th'[t].rid \notin DOMAIN _recording_processes
            /\ Cardinality(DOMAIN _recording_processes')
                 = Cardinality(DOMAIN _recording_processes) + 1]_vars

\* C7: a step of stop_recording(id) leaves every other entry of the registry
\* in place and unchanged, and its two processes in the state they were in.
C7_StopLeavesOthers ==
    [][\A t \in Threads :
         StepOf(t, "stop_recording")
         => \A other \in DOMAIN _recording_processes \ {th'[t].arg} :
               /\ other \in DOMAIN _recording_processes'
               /\ _recording_processes'[other] = _recording_processes[other]
               /\ proc'[_recording_processes[other].ssh_process]
                    = proc[_recording_processes[other].ssh_process]
               /\ proc'[_recording_processes[other].ffmpeg_process]
                    = proc[_recording_processes[other].ffmpeg_process]]_vars

C7_Witness ==
    \E t \in Threads :
        /\ Returned(t, "stop_recording")
        /\ th[t].ret = "True"
        /\ \E other \in DOMAIN _recording_processes :
              /\ other # th[t].arg
              /\ proc[_recording_processes[other].ffmpeg_process].st = "running"
              /\ proc[_recording_processes[other].ssh_process].st = "running"

\* C8: stop_recording(id) for an id that is not a key returns False in that
\* step, signals no process, and leaves the registry and the stream session
\* as they were.
C8_UnknownIdFails ==
    [][\A t \in Threads :
         (Calls(t, "stop_recording") /\ th'[t].arg \notin DOMAIN _recording_processes)
         => /\ th'[t].pc = "idle"
            /\ th'[t].ret = "False"
            /\ proc' = proc
            /\ _recording_processes' = _recording_processes
            /\ _stream_process' = _stream_process
            /\ _http_server_process' = _http_server_process]_vars

C8_Witness ==
    \E t \in Threads :
        /\ Returned(t, "stop_recording")
        /\ Said(t, "Recording not found")
        /\ th[t].ret = "False"
        /\ DOMAIN _recording_processes # {}
        /\ Alive(_http_server_process)

\* C9: when stop_recording(id) returns for an id that is a key, the entry is
\* gone and neither process of the recording is still running.
C9_StopEndsRecording ==
    [][\A t \in Threads :
         (Returns(t, "stop_recording") /\ th'[t].arg \in DOMAIN _recording_processes)
         => /\ th'[t].arg \notin DOMAIN _recording_processes'
            /\ proc'[_recording_processes[th'[t].arg].ffmpeg_process].st = "exited"
            /\ proc'[_recording_processes[th'[t].arg].ssh_process].st = "exited"]_vars

\* C10: when the process stop_recording waits for is still alive at the end
\* of the grace period, stop_recording kills it, and stop_recording of an id
\* that is a key returns True.
C10_TwoPhaseStop ==
    [][\A t \in Threads :
         /\ (StepOf(t, "stop_recording") /\ th[t].pc = "sp_wait_ffmpeg"
               /\ poll_is_None(th[t].ff))
            => proc'[th[t].ff].st = "exited"
         /\ (StepOf(t, "stop_recording") /\ th[t].pc = "sp_wait_ssh"
               /\ poll_is_None(th[t].ssh))
            => proc'[th[t].ssh].st = "exited"
         /\ (Returns(t, "stop_recording") /\ th'[t].arg \in DOMAIN _recording_processes)
            => th'[t].ret = "True"]_vars

\* C11: when stop_stream returns with a stream pipe on record, neither the
\* pipe's local process (_stream_process) nor the remote process it reads
\* from is still running without a SIGTERM or SIGKILL from the controller.
C11_StopSignalsBoth ==
    [][\A t \in Threads :
         (Returns(t, "stop_stream") /\ _stream_process # None)
         => /\ proc'[_stream_process].st # "running"
            /\ proc'[proc[_stream_process].src].st # "running"]_vars

\* C12: a step of stop_stream or stop_recording that signals a remote
\* (producer) process is taken when the local (consumer) process reading from
\* it has exited: after it exited by itself, or after the SIGTERM of this stop
\* and the end of the wait for it.
C12_LocalBeforeRemote ==
    [][\A t \in Threads : \A p \in Pids :
         (/\ StepOf(t, "stop_recording") \/ StepOf(t, "stop_stream")
          /\ proc[p].kind = "ssh"
          /\ proc'[p].st # proc[p].st)
         => \E f \in Pids : proc[f].src = p /\ proc[f].st = "exited"]_vars

C12_Witness ==
    \E t \in Threads :
        /\ th[t].op = "stop_recording"
        /\ th[t].pc = "sp_wait_ssh"
        /\ proc[th[t].ssh].st = "signalled"
        /\ proc[th[t].ff].st = "exited"

\* C13: a cleanup_finished_recordings call of the only caller puts an entry
\* on its list exactly when the entry's local process has exited at the scan
\* of that entry, scans every entry, deletes one listed entry per deletion and
\* nothing else, never touches an entry whose local process has not exited
\* (whatever the clock and its planned duration), and returns the number of
\* entries it deleted.
C13_ReapsExactlyFinished ==
    [][\A t \in Threads :
         StepOf(t, "cleanup_finished_recordings")
         => LET me == th[t]
                after == th'[t]
                reg == _recording_processes
                listed(r) == {r.finished[i] : i \in 1 .. Len(r.finished)}
            IN /\ (after.pc = "cl_scan" /\ after.it.last # me.it.last)
                  => (after.it.last \in listed(after)
                        <=> proc[reg[after.it.last].ffmpeg_process].st = "exited")
               /\ (after.pc = "cl_del" /\ me.pc # "cl_del")
                  => \A k \in DOMAIN reg : k <= after.it.last
               /\ \A k \in DOMAIN reg :
                     poll_is_None(reg[k].ffmpeg_process)
                     => k \in DOMAIN _recording_processes'
                        /\ _recording_processes'[k] = reg[k]
               /\ _recording_processes' # reg
                  => /\ after.n = me.n + 1
                     /\ _recording_processes' = Del(reg, me.finished[after.n])
                     /\ me.finished[after.n] \in DOMAIN reg
               /\ after.pc = "idle"
                  => /\ after.ret = "Count"
                     /\ after.n = Len(me.finished)
                     /\ listed(me) \cap DOMAIN _recording_processes' = {}]_vars

C13_Witness ==
    \E t \in Threads :
        /\ Returned(t, "cleanup_finished_recordings")
        /\ th[t].ret = "Count"
        /\ th[t].n = 1
        /\ \E k \in DOMAIN _recording_processes :
              /\ proc[_recording_processes[k].ffmpeg_process].st = "running"
              /\ now - _recording_processes[k].start_time >= _recording_processes[k].duration

\* C14: for an entry with planned duration d >= 1 and elapsed = now -
\* start_time, get_recording_status(id) returns the status of that moment, in
\* which remaining_time is d - elapsed until elapsed reaches d and 0 from then
\* on, progress_percent is elapsed * 100 / d until elapsed reaches d and 100
\* from then on, lies within 0 .. 100, and does not decrease when time passes.
C14_Progress ==
    [][\A id \in DOMAIN _recording_processes :
         LET entry == _recording_processes[id]
             d == entry.duration
             elapsed == now - entry.start_time
             status == recording_status(_recording_processes, proc, now, id)
             later == recording_status(_recording_processes', proc', now', id)
             p == status.progress_percent
         IN /\ d >= 1 /\ elapsed >= 0
            /\ \A t \in Threads :
                 (Returns(t, "get_recording_status") /\ th'[t].arg = id)
                 => th'[t].data = status
            /\ status.elapsed_time = elapsed
            /\ elapsed <= d => status.remaining_time = d - elapsed
            /\ elapsed >= d => status.remaining_time = 0
            /\ elapsed <= d => p[1] * d = elapsed * 100 * p[2]
            /\ elapsed >= d => p[1] = 100 * p[2]
            /\ p[2] > 0 /\ 0 <= p[1] /\ p[1] <= 100 * p[2]
            /\ (id \in DOMAIN _recording_processes'
                  /\ _recording_processes'[id] = entry /\ now' >= now)
               => p[1] * later.progress_percent[2]
                    <= later.progress_percent[1] * p[2]]_vars

C14_Witness ==
    \E t \in Threads :
        /\ Returned(t, "get_recording_status")
        /\ th[t].arg \in DOMAIN _recording_processes
        /\ th[t].data.elapsed_time > _recording_processes[th[t].arg].duration
        /\ th[t].data.progress_percent = <<100, 1>>
        /\ th[t].data.remaining_time = 0

\* C15: get_recording_status(id) for an id that is not a key returns in that
\* step with an error outcome and no status record, leaves the registry as it
\* was, and GET /record/status does not answer it as a success.
C15_UnknownStatusFails ==
    [][\A t \in Threads :
         (/\ Calls(t, "get_recording_status")
          /\ th'[t].arg # None
          /\ th'[t].arg \notin DOMAIN _recording_processes)
         => /\ th'[t].pc = "idle"
            /\ "error" \in DOMAIN th'[t].data
            /\ "recording_id" \notin DOMAIN th'[t].data
            /\ _recording_processes' = _recording_processes
            /\ ~(th'[t].resp.status = 200 /\ th'[t].resp.success)]_vars

\* C16: however the other caller's start_recording, stop_recording or
\* cleanup_finished_recordings interleave with it, get_recording_status()
\* without an id returns a dictionary (it does not raise), active_recordings
\* is the number of statuses in it, and none of them is an error placeholder.
C16_StableSnapshot ==
    [][\A t \in Threads :
         (Returns(t, "get_recording_status") /\ th'[t].arg = None)
         => /\ th'[t].ret = "Dict"
            /\ th'[t].n = Cardinality(DOMAIN th'[t].data)
            /\ \A k \in DOMAIN th'[t].data :
                  "error" \notin DOMAIN th'[t].data[k]]_vars

\* C17: however cleanup_finished_recordings, start_recording and
\* stop_recording of two callers interleave, cleanup_finished_recordings
\* returns its count (it does not raise), and no step of it removes an entry
\* whose local process has not exited.
C17_RegistryTolerant ==
    [][\A t \in Threads :
         /\ Returns(t, "cleanup_finished_recordings") => th'[t].ret = "Count"
         /\ StepOf(t, "cleanup_finished_recordings")
            => \A k \in DOMAIN _recording_processes :
                  poll_is_None(_recording_processes[k].ffmpeg_process)
                  => k \in DOMAIN _recording_processes']_vars

\* C18: when start_stream finds the pipe's local process exited after the
\* settle window, it returns False, the remote process of the pipe is not
\* left running, the HTTP server spawned by this call (the process spawned
\* just before the pipe's remote process) is not left running, and
\* _stream_process no longer holds the dead pipe.
C18_FailedStartCleansUp ==
    [][\A t \in Threads :
         (/\ StepOf(t, "start_stream")
          /\ th[t].pc = "ss_poll"
          /\ ~poll_is_None(_stream_process))
         => LET remote == proc[_stream_process].src
            IN /\ th'[t].pc = "idle"
               /\ th'[t].ret = "False"
               /\ proc'[remote].st # "running"
               /\ (_http_server_process = remote - 1)
                  => proc'[_http_server_process].st # "running"
               /\ _stream_process' = None]_vars

\* C19: when the Popen of the local process raises after the remote process
\* was spawned, start_stream returns False and start_recording returns None,
\* the registry and _stream_process stay as they were, and the remote process
\* already spawned is not left running.
C19_PartialLaunchCleanedUp ==
    [][\A t \in Threads :
         (/\ StepOf(t, "start_stream") \/ StepOf(t, "start_recording")
          /\ th[t].pc \in {"ss_spawn_ffmpeg", "sr_spawn_ffmpeg"}
          /\ Len(proc') = Len(proc))
         => /\ th'[t].pc = "idle"
            /\ th'[t].ret \in {"False", "None"}
            /\ _recording_processes' = _recording_processes
            /\ _stream_process' = _stream_process
            /\ proc'[th[t].ssh].st # "running"]_vars

\* C20: the remote capture command that a start_stream or start_recording
\* call without keyword arguments builds carries, for each of width, height,
\* framerate and bitrate, the value of the module global DEFAULT_<KEY>: the
\* value v of the last set_camera_settings({k: v}) that returned True.
C20_SettingsTakeEffect ==
    [][\A t \in Threads :
         (/\ StepOf(t, "start_stream") \/ StepOf(t, "start_recording")
          /\ th[t].cmd = NoCmd
          /\ th'[t].cmd # NoCmd)
         => \A k \in valid_settings : th'[t].cmd[k] = DEFAULT[k]]_vars

\* C21: streaming is true exactly when the stream pipe on record has a local
\* process that has not exited, and is_active of a recording exactly when its
\* local process has not exited; the state of the remote process plays no part.
C21_LivenessIsLocal ==
    /\ get_stream_status.streaming
         <=> (_stream_process # None /\ proc[_stream_process].st # "exited")
    /\ \A id \in DOMAIN _recording_processes :
          recording_status(_recording_processes, proc, now, id).is_active
            <=> proc[_recording_processes[id].ffmpeg_process].st # "exited"

C21_Witness ==
    /\ _stream_process # None
    /\ get_stream_status.streaming
    /\ proc[proc[_stream_process].src].st = "exited"

\* C22: an entry whose two processes have exited reports is_active = false
\* and its output_path, is left in place and unchanged by every step that is
\* not a step of stop_recording or cleanup_finished_recordings, and a
\* stop_recording of its id returns True in one step that signals no process
\* and removes the entry.
C22_ExitedStaysUntilRemoved ==
    [][\A id \in DOMAIN _recording_processes :
         LET entry == _recording_processes[id]
             status == recording_status(_recording_processes, proc, now, id)
         IN (/\ proc[entry.ffmpeg_process].st = "exited"
             /\ proc[entry.ssh_process].st = "exited")
            => /\ ~status.is_active
               /\ status.output_path = entry.output_path
               /\ (\A t \in Threads : /\ ~StepOf(t, "stop_recording")
                                      /\ ~StepOf(t, "cleanup_finished_recordings"))
                  => /\ id \in DOMAIN _recording_processes'
                     /\ _recording_processes'[id] = entry
               /\ \A t \in Threads :
                     (Calls(t, "stop_recording") /\ th'[t].arg = id)
                     => /\ th'[t].pc = "idle"
                        /\ th'[t].ret = "True"
                        /\ proc' = proc
                        /\ _recording_processes' = Del(_recording_processes, id)]_vars

\* the local process p of a recording has lost its remote process
RemoteGone(p) ==
    /\ p \in Pids
    /\ proc[p].kind = "ffmpeg" /\ proc[p].owner = "rec"
    /\ proc[proc[p].src].st = "exited"

LocalGone(p) == p \in Pids /\ proc[p].st = "exited"

Lines(rec, line) == {j \in 1 .. Len(rec.log) : rec.log[j] = line}

\* C24: in capture_frames_from_stream(count, interval) every sample, failed
\* or not, is followed by the next one until count samples are made; a sample
\* adds its path to the result exactly when its file was written, and adds
\* nothing while no playlist is served; the call returns a list, of the
\* successful samples in order, not longer than count.
C24_BatchNeverAborts ==
    [][\A t \in Threads :
         StepOf(t, "capture_frames_from_stream")
         => LET me == th[t]
                after == th'[t]
                path == frame_path("/tmp/frames", now, me.i)
            IN /\ (me.pc = "cf_sample" /\ me.i < me.arg)
                  => /\ after.pc = "cf_sample"
                     /\ after.i = me.i + 1
                     /\ \/ after.frames = me.frames /\ files' = files
                        \/ after.frames = Append(me.frames, path) /\ path \in files'
                     /\ ~PlaylistServed => after.frames = me.frames
               /\ after.pc = "idle"
                  => /\ after.ret = "List"
                     /\ me.i = after.arg
                     /\ Len(me.log) = after.arg
                     /\ after.frames = me.frames
                     /\ Len(after.frames) = Cardinality(Lines(me, "Frame captured"))
                     /\ Len(after.frames) <= after.arg
                     /\ \A j, k \in 1 .. Len(after.frames) :
                           j < k => after.frames[j][3] < after.frames[k][3]]_vars

C24_Witness ==
    \E t \in Threads :
        /\ Returned(t, "capture_frames_from_stream")
        /\ th[t].arg = 2
        /\ th[t].log = <<"Timeout capturing frame", "Frame captured">>
        /\ th[t].frames = <<frame_path("/tmp/frames", now, 1)>>

\* C26 as stated: capture_frame returns the path exactly when the remote
\* command exited with code 0, the file then exists at that path, and a call
\* that returns None has created no file.
C26_Original ==
    [][\A t \in Threads :
         Returns(t, "capture_frame")
         => /\ th'[t].ret = "Path" <=> th'[t].returncode = 0
            /\ th'[t].ret = "Path" => th'[t].frames[1] \in files'
            /\ th'[t].ret = "None" => files' = files]_vars

\* C26 amended: capture_frame returns the path only if the remote command
\* exited with code 0, and the file then exists at that path; after a
\* non-zero exit or a launch error it returns None and has created no file;
\* after exit code 0 it returns None only with "Error capturing frame" (the
\* file could not be opened or written).
C26_PathOnlyAfterWrite ==
    [][\A t \in Threads :
         Returns(t, "capture_frame")
         => /\ th'[t].ret \in {"Path", "None"}
            /\ th'[t].ret = "Path"
               => th'[t].returncode = 0 /\ th'[t].frames[1] \in files'
            /\ th'[t].returncode # 0
               => th'[t].ret = "None" /\ files' = files
            /\ (th'[t].returncode = 0 /\ th'[t].ret = "None")
               => th'[t].log = <<"Error capturing frame">>]_vars

C26_Witness ==
    \E t \in Threads :
        /\ Returned(t, "capture_frame")
        /\ th[t].ret = "Path"
        /\ th[t].returncode = 0
        /\ th[t].frames = <<default_frame_path>>
        /\ default_frame_path \in files
        /\ th[t].resp.status = 200

\* C25: capture_frame_for_analysis goes to the stream sample exactly when
\* get_stream_status reports streaming at the call, and to the direct capture
\* otherwise; no step of it changes a process, the stream handles or the
\* registry; the stream branch makes its one sample and returns, with the
\* sampled path if the sample succeeded and with None otherwise, and then
\* creates no file (no direct capture is tried); the direct branch creates
\* nothing but the analysis file.
C25_StreamPreferred ==
    [][\A t \in Threads :
         StepOf(t, "capture_frame_for_analysis")
         => /\ UNCHANGED <<proc, _stream_process, _http_server_process,
                           _recording_processes>>
            /\ Calls(t, "capture_frame_for_analysis")
               => /\ th'[t].pc \in {"ca_stream", "ca_direct"}
                  /\ th'[t].pc = "ca_stream" <=> get_stream_status.streaming
                  /\ files' = files
            /\ th[t].pc = "ca_stream"
               => /\ th'[t].pc = "idle"
                  /\ th'[t].returncode = NoResult
                  /\ \/ /\ th'[t].ret = "Path"
                        /\ th'[t].frames = <<frame_path("/tmp", now, 0)>>
                        /\ files' = files \cup {frame_path("/tmp", now, 0)}
                     \/ /\ th'[t].ret = "None"
                        /\ th'[t].frames = << >>
                        /\ files' = files
            /\ th[t].pc = "ca_direct"
               => /\ th'[t].pc = "idle"
                  /\ files' \subseteq files \cup {th[t].path}
                  /\ th'[t].ret = "Path" => th'[t].frames = <<th[t].path>>]_vars

\* capture_frame_for_analysis has returned None after a failed sample of a
\* stream that is still running: no direct capture was run
C25_Witness ==
    \E t \in Threads :
        /\ Returned(t, "capture_frame_for_analysis")
        /\ th[t].ret = "None"
        /\ th[t].returncode = NoResult
        /\ Said(t, "Failed to capture frame")
        /\ get_stream_status.streaming
        /\ analysis_frame_path \notin files

\* C27: a POST /record/stop whose recording_id is not a key of the registry
\* is answered with status 404.
C27_UnknownIdIs404 ==
    [][\A t \in Threads :
         (/\ Calls(t, "stop_recording")
          /\ th'[t].arg \notin DOMAIN _recording_processes)
         => /\ th'[t].pc = "idle"
            /\ th'[t].resp.status = 404]_vars

\* this step answers, or starts to handle, the request caller t has received
Serves(t) == th[t].pc = "idle" /\ th[t].req # NoRequest /\ th'[t] # th[t]

OutOfRange(req) ==
    \E f \in Fields(req.endpoint) :
        /\ req.body.name = f.name
        /\ req.body.value < f.ge \/ req.body.value > f.le

C30_NoStreamNoPlaylist ==
    ~ get_stream_status.streaming => get_hls_playlist.status = 404

\* C31: a step of start_stream, start_recording, stop_stream, stop_recording
\* or cleanup_finished_recordings made on one caller's controller instance
\* leaves unchanged what the instance of every other caller reports.
C31_InstancesAreSeparate ==
    [][\A t, u \in Threads :
         (/\ t # u
          /\ \E op \in {"start_stream", "start_recording", "stop_stream",
                        "stop_recording", "cleanup_finished_recordings"} :
                StepOf(t, op))
         => reports(controller(u))' = reports(controller(u))]_vars

\* C32: when start_recording, called without an output_path, starts its local
\* process, no recording that is still in flight (its local process alive)
\* writes to the same output file.
C32_DistinctOutputFiles ==
    [][\A t \in Threads :
         (/\ Returns(t, "start_recording")
          /\ th'[t].ret = "Id")
         => \A id \in DOMAIN _recording_processes :
               Alive(_recording_processes[id].ffmpeg_process)
               => _recording_processes[id].output_path # th[t].path]_vars

\* C33: no step of cleanup_finished_recordings or get_recording_status
\* removes a registry entry whose remote process is alive.
C33_LiveRemoteKeepsEntry ==
    [][\A t \in Threads :
         (StepOf(t, "cleanup_finished_recordings") \/ StepOf(t, "get_recording_status"))
         => \A id \in DOMAIN _recording_processes :
               Alive(_recording_processes[id].ssh_process)
               => id \in DOMAIN _recording_processes']_vars

\* the entries this step has put into the registry
Inserted ==
    {id \in DOMAIN _recording_processes' :
        id \notin DOMAIN _recording_processes
        \/ _recording_processes'[id] # _recording_processes[id]}

\* C34: a local process is spawned only on the output of a remote process of
\* the same pipe that exists already and whose output handle the controller
\* still holds; a remote process is spawned with no input, and the stream's
\* remote process only once the HTTP server handle is set, the server being
\* spawned by a call that has no remote process yet; the controller
\* closes its handle on a remote output only when a local process is bound
\* to it; a registry entry is inserted only for a pair whose local process
\* reads the remote output and whose handle is already closed.
C34_StartOrdering ==
    [][/\ Len(proc') > Len(proc)
          => LET new == proc'[Len(proc')]
             IN /\ new.kind = "ffmpeg"
                   => /\ new.src \in Pids
                      /\ proc[new.src].kind = "ssh"
                      /\ proc[new.src].owner = new.owner
                      /\ proc[new.src].out = "held"
                /\ new.kind = "ssh"
                   => /\ new.src = None
                      /\ new.owner = "stream"
                         => /\ _http_server_process \in Pids
                            /\ proc[_http_server_process].kind = "http"
                /\ new.kind = "http"
                   => \A t \in Threads :
                         StepOf(t, "start_stream") => th[t].ssh = None /\ th'[t].ssh = None
       /\ \A p \in Pids :
             (proc[p].out = "held" /\ proc'[p].out = "closed")
             => /\ proc[p].kind = "ssh"
                /\ \E q \in Pids : proc[q].kind = "ffmpeg" /\ proc[q].src = p
       /\ \A id \in Inserted :
             LET entry == _recording_processes'[id]
             IN /\ entry.ssh_process \in Pids /\ entry.ffmpeg_process \in Pids
                /\ proc[entry.ffmpeg_process].src = entry.ssh_process
                /\ proc[entry.ssh_process].out = "closed"]_vars

\* start_recording has returned an id whose pair is wired and registered
C34_Witness ==
    \E t \in Threads :
        /\ Returned(t, "start_recording")
        /\ th[t].ret = "Id"
        /\ th[t].rid \in DOMAIN _recording_processes
        /\ LET entry == _recording_processes[th[t].rid]
           IN /\ proc[entry.ffmpeg_process].src = entry.ssh_process
              /\ proc[entry.ssh_process].out = "closed"
              /\ proc[entry.ffmpeg_process].out = "held"

\* C35: in start_stream, when the spawn of the HTTP server raises, or the
\* server has exited when it is polled after its settle window, the call
\* returns False in that step without having spawned a remote or a local
\* process; and no step of start_stream up to that poll spawns one of them or
\* changes _stream_process.
C35_NoServerNoPipe ==
    [][\A t \in Threads :
         (StepOf(t, "start_stream") /\ th[t].pc \in {"idle", "hs_spawn", "hs_poll"})
         => /\ _stream_process' = _stream_process
            /\ th'[t].ssh = None
            /\ \A p \in 1 .. Len(proc') :
                  p \notin Pids => proc'[p].kind = "http"
            /\ (th[t].pc = "hs_spawn" /\ Len(proc') = Len(proc))
               => /\ th'[t].pc = "idle"
                  /\ th'[t].ret = "False"
            /\ (th[t].pc = "hs_poll" /\ proc[_http_server_process].st = "exited")
               => /\ th'[t].pc = "idle"
                  /\ th'[t].ret = "False"
                  /\ proc' = proc]_vars

\* start_stream has returned False because the server it spawned had exited
C35_Witness ==
    \E t \in Threads :
        /\ Returned(t, "start_stream")
        /\ th[t].ret = "False"
        /\ Said(t, "Failed to start HTTP server")
        /\ _stream_process = None
        /\ \A p \in Pids : proc[p].kind = "http"

\* C36: an exited process stays exited; streaming is never reported on an
\* exited handle; when _stream_process changes it is to a local process
\* spawned in that step on a remote process that no other process reads from;
\* a start_stream that finds no live stream goes on to spawn a server exactly
\* when the server handle is not alive, and a new server handle is set only
\* when the old one is not alive.
C36_NoWayBackToRunning ==
    [][/\ \A p \in Pids : proc[p].st = "exited" => proc'[p].st = "exited"
       /\ get_stream_status.streaming' => proc'[_stream_process'].st # "exited"
       /\ _stream_process' # _stream_process
          => /\ _stream_process' = Len(proc) + 1
             /\ Len(proc') = Len(proc) + 1
             /\ proc'[_stream_process'].kind = "ffmpeg"
             /\ proc'[_stream_process'].src \in Pids
             /\ proc[proc'[_stream_process'].src].kind = "ssh"
             /\ ~ \E q \in Pids : proc[q].src = proc'[_stream_process'].src
       /\ \A t \in Threads :
             (Calls(t, "start_stream") /\ ~ Alive(_stream_process))
             => /\ th'[t].pc = "hs_spawn" <=> ~ Alive(_http_server_process)
                /\ th'[t].pc = "ss_spawn_ssh" <=> Alive(_http_server_process)
       /\ (_http_server_process' # _http_server_process /\ _http_server_process' # None)
          => /\ ~ Alive(_http_server_process)
             /\ _http_server_process' = Len(proc) + 1]_vars

\* a second start_stream has returned True on a fresh pair, after the first
\* stream's local process exited, with the one server reused
C36_Witness ==
    \E t \in Threads :
        /\ Returned(t, "start_stream")
        /\ th[t].ret = "True"
        /\ get_stream_status.streaming
        /\ Cardinality({p \in Pids : proc[p].kind = "http"}) = 1
        /\ \E p \in Pids :
              /\ p # _stream_process
              /\ proc[p].kind = "ffmpeg"
              /\ proc[p].st = "exited"
              /\ proc[p].src # proc[_stream_process].src

\* C37: when get_recording_status() without an id returns its dictionary,
\* active_recordings is the number of entries in the registry, whether their
\* processes have exited or not, and the dictionary has one status per entry;
\* with an empty registry it is 0.
C37_CountsEntries ==
    [][\A t \in Threads :
         (/\ Returns(t, "get_recording_status")
          /\ th'[t].arg = None
          /\ th'[t].ret = "Dict")
         => /\ th'[t].n = Cardinality(DOMAIN _recording_processes')
            /\ DOMAIN th'[t].data = DOMAIN _recording_processes'
            /\ _recording_processes' = NoRecordings => th'[t].n = 0]_vars

\* the all-recordings status has counted an entry that it reports as not
\* active
C37_Witness ==
    \E t \in Threads :
        /\ Returned(t, "get_recording_status")
        /\ th[t].arg = None
        /\ th[t].ret = "Dict"
        /\ th[t].n = 1
        /\ \A id \in DOMAIN th[t].data : ~ th[t].data[id].is_active

\* C38: every step of get_stream_status and of get_recording_status, with
\* or without an id, leaves the process table (nothing spawned, signalled or
\* waited for), the stream handle, the server handle, the registry and the
\* settings defaults unchanged.
C38_StatusReadOnly ==
    [][\A t \in Threads :
         (StepOf(t, "get_stream_status") \/ StepOf(t, "get_recording_status"))
         => UNCHANGED <<proc, _stream_process, _http_server_process,
                        _recording_processes, DEFAULT>>]_vars

\* a status has been returned for an entry whose local process has exited,
\* and the entry is still in the registry
C38_Witness ==
    \E t \in Threads :
        /\ Returned(t, "get_recording_status")
        /\ th[t].arg \in DOMAIN _recording_processes
        /\ th[t].ret = "Dict"
        /\ "is_active" \in DOMAIN th[t].data
        /\ ~ th[t].data.is_active
        /\ proc[_recording_processes[th[t].arg].ffmpeg_process].st = "exited"

\* C39: set_camera_settings returns True exactly when every key of the
\* mapping is one of width, height, framerate, bitrate, and False otherwise;
\* the keys in front of the first unknown key (all keys, if there is none)
\* have been written to the process-wide defaults, and no other default has
\* changed: the keys behind the unknown key are not applied.
C39_PartialUpdate ==
    [][\A t \in Threads :
         StepOf(t, "set_camera_settings")
         => LET settings == th'[t].arg
                unknown == {i \in DOMAIN settings : settings[i] \notin valid_settings}
                stop == IF unknown = {} THEN Len(settings) + 1
                        ELSE CHOOSE i \in unknown : \A j \in unknown : i <= j
            IN /\ th'[t].pc = "idle"
               /\ th'[t].ret = (IF unknown = {} THEN "True" ELSE "False")
               /\ \A k \in valid_settings :
                    DEFAULT'[k] = IF \E i \in 1 .. stop - 1 : settings[i] = k
                                  THEN new_setting[k]
                                  ELSE DEFAULT[k]]_vars

\* set_camera_settings has returned False on a mapping with a setting in front
\* of the unknown key and one behind it: the first carries its new value, the
\* second still the value the module was imported with
C39_Witness ==
    \E t \in Threads :
        /\ Returned(t, "set_camera_settings")
        /\ th[t].ret = "False"
        /\ Len(th[t].arg) = 3
        /\ th[t].arg[2] \notin valid_settings
        /\ DEFAULT[th[t].arg[1]] = new_setting[th[t].arg[1]]
        /\ DEFAULT[th[t].arg[1]] # module_globals[th[t].arg[1]]
        /\ DEFAULT[th[t].arg[3]] = module_globals[th[t].arg[3]]
        /\ DEFAULT[th[t].arg[3]] # new_setting[th[t].arg[3]]

\* C40: start_recording with duration 0 that gets its two processes started
\* inserts an entry of duration 0; get_recording_status(id) of an entry of
\* duration 0 ends in ZeroDivisionError, and so does get_recording_status()
\* while the registry holds such an entry; a status call fails in this way
\* for no other reason.
C40_ZeroDurationBreaksStatus ==
    [][\A t \in Threads :
         LET zero == {id \in DOMAIN _recording_processes :
                        _recording_processes[id].duration = 0}
         IN /\ (Returns(t, "start_recording") /\ th'[t].ret = "Id" /\ th[t].dur = 0)
               => /\ th'[t].rid \in Inserted
                  /\ _recording_processes'[th'[t].rid].duration = 0
            /\ (Returns(t, "get_recording_status") /\ th'[t].arg # None)
               => (th'[t].ret = "ZeroDivisionError" <=> th'[t].arg \in zero)
            /\ (Returns(t, "get_recording_status") /\ th'[t].arg = None)
               => (th'[t].ret = "ZeroDivisionError" <=> zero # {})]_vars

\* the all-recordings status has failed with the division by zero while the
\* registry holds an entry of duration 0 next to an entry of duration 1
C40_Witness ==
    \E t \in Threads :
        /\ Returned(t, "get_recording_status")
        /\ th[t].arg = None
        /\ th[t].ret = "ZeroDivisionError"
        /\ \E id \in DOMAIN _recording_processes : _recording_processes[id].duration = 0
        /\ \E id \in DOMAIN _recording_processes : _recording_processes[id].duration = 1

=============================================================================
